---- MODULE Spec2Model ----
(***************************************************************************)
(* A model of the analytics core of bizgptai:                              *)
(*   src/src/utils/dataProcessor.ts      (cleaning pipeline)               *)
(*   src/src/services/nlqService.ts      (query executor, client)          *)
(*   src/backend/src/services/nlqService.ts (query executor, backend)      *)
(*   src/src/services/voiceService.ts    (forecasting, anomaly detection)  *)
(*                                                                         *)
(* Every function of the code is a pure function; it is modelled as an     *)
(* operator, and each component has a specification whose initial states   *)
(* draw the inputs from bounded sets and whose actions apply the function. *)
(* JavaScript numbers are modelled as exact rationals n/d (d > 0), with    *)
(* NaN as a separate value: the doubles of the code agree with them up to  *)
(* rounding error.                                                         *)
(***************************************************************************)
EXTENDS Integers, Sequences, FiniteSets, TLC

VARIABLES
    rawData,      \* processDataset: the raw rows passed in
    processed,    \* processDataset(rawData), or NoResult before the call
    reprocessed,  \* processDataset(processed.rows): the second cleaning pass
    uniqueRows,   \* processDataset: the rows passed to fillMissingValues, after it
    sql,          \* executeQuery: the plan text, a sequence of phrases
    qdata,        \* executeQuery: the rows, [base |-> pattern, n |-> length]
    site,         \* executeQuery: "client" or "backend" copy of the service
    qresult,      \* executeQuery(sql, data), or NoResult before the call
    tsData,       \* predictTimeSeries: the rows (date field and metric cell)
    periods,      \* predictTimeSeries: the number of periods asked for
    env,          \* predictTimeSeries: the runtime's clock and local time zone
    prediction,   \* predictTimeSeries(tsData, metric, periods), or NoResult
    anData,       \* detectAnomalies: the rows (date field and metric cell)
    anomalies,    \* detectAnomalies(anData, metric), or NoResult
    kpiData,      \* calculateKPIs: the rows
    kpiColumns,   \* calculateKPIs: the metric columns asked for
    kpis,          \* calculateKPIs(kpiData, kpiColumns), or NoResult
    statsData,    \* generateStatistics: the rows
    statsColumns, \* generateStatistics: the columns (name and type)
    statistics,    \* generateStatistics(statsData, statsColumns), or NoResult
    typeValues,   \* detectColumnType: the values of a column
    detectedType,  \* detectColumnType(typeValues), or NoResult
    fillData,     \* fillMissingValues: the rows passed in
    fillResult,    \* fillMissingValues(fillData, columns), or NoResult
    repData,      \* the rows of a repeated analysis
    repFirst,     \* the KPIs, forecast and anomalies of repData at the time env.now
    repSecond,     \* the same, computed again at a later time
    nlqQuery,     \* the question given to translateNLQtoSQL
    nlqColumns,   \* the column schema given to it
    variant,      \* which service: client or backend
    apiKey,       \* whether OPENAI_API_KEY is set
    pc,           \* where the call stands
    requests,     \* the requests sent to the collaborator
    response,     \* what the collaborator answered
    translation,   \* how the promise settled
    trendValues,  \* the values given to detectTrend
    trend,         \* its result
    recAnomalies, \* the anomalies given to generateRecommendations
    recPrediction,\* the prediction given to it
    recommendations, \* the messages it returned
    uploads,      \* each call of handleFile: its file and where it stands
    datasets,     \* the dataset list of the data context
    storage,      \* the keys written to localStorage
    isProcessing, \* the isProcessing state of DataUpload
    uploadError,  \* its error state
    success,      \* its success state
    timers,        \* the pending setTimeout callbacks
    messages,     \* the messages of ChatInterface
    chatInput,    \* its input state
    isLoading,    \* its isLoading state
    currentDataset,\* the current dataset of the data context
    chatCall,     \* the call of handleSubmit waiting at an await
    submitted,     \* the submit events handled
    alerts,       \* the alerts of the data context, newest first
    alertCall     \* the last call of the alert store and the number of calls

cleanVars == <<rawData, processed, reprocessed, uniqueRows>>
queryVars == <<sql, qdata, site, qresult>>
forecastVars == <<tsData, periods, env, prediction>>
anomalyVars == <<anData, anomalies>>
kpiVars == <<kpiData, kpiColumns, kpis>>
statsVars == <<statsData, statsColumns, statistics>>
typeVars == <<typeValues, detectedType>>
fillVars == <<fillData, fillResult>>
repeatVars == <<repData, repFirst, repSecond>>
translateVars == <<nlqQuery, nlqColumns, variant, apiKey, pc, requests, response, translation>>
trendVars == <<trendValues, trend>>
recommendVars == <<recAnomalies, recPrediction, recommendations>>
uploadVars == <<uploads, datasets, storage, isProcessing, uploadError, success, timers>>
chatVars == <<messages, chatInput, isLoading, currentDataset, chatCall, submitted>>
alertVars == <<alerts, alertCall>>
vars == <<rawData, processed, reprocessed, uniqueRows, sql, qdata, site, qresult,
          tsData, periods, env, prediction, anData, anomalies,
          kpiData, kpiColumns, kpis,
          statsData, statsColumns, statistics,
          typeValues, detectedType,
          fillData, fillResult,
          repData, repFirst, repSecond,
          nlqQuery, nlqColumns, variant, apiKey, pc, requests, response, translation,
          trendValues, trend,
          recAnomalies, recPrediction, recommendations,
          uploads, datasets, storage, isProcessing, uploadError, success, timers,
          messages, chatInput, isLoading, currentDataset, chatCall, submitted,
          alerts, alertCall>>

\* A call that has not been made yet.
NoResult == [t |-> "none"]
\* The value of the variables of a component that a specification leaves out.
Idle == [t |-> "idle"]

(***************************************************************************)
(* Sequences.                                                              *)
(***************************************************************************)
Range(s) == {s[i] : i \in DOMAIN s}

\* Array.prototype.filter: the elements of s that are in keep, in order.
FilterSeq(s, keep) == SelectSeq(s, LAMBDA v : v \in keep)

\* Array.prototype.slice(0, n).
Slice0(s, n) == SubSeq(s, 1, IF Len(s) < n THEN Len(s) ELSE n)

\* All sequences over S of length at most n.
SeqUpTo(S, n) == UNION {[1..k -> S] : k \in 0..n}

(***************************************************************************)
(* Numbers: exact rationals [n, d] with d > 0 in lowest terms, and NaN.    *)
(***************************************************************************)
Abs(x) == IF x < 0 THEN -x ELSE x

RECURSIVE GCD(_, _)
GCD(a, b) == IF b = 0 THEN a ELSE GCD(b, a % b)

Rat(n, d) ==
    LET g == GCD(Abs(n), Abs(d))
        s == IF d < 0 THEN -1 ELSE 1
    IN  [n |-> s * (n \div g), d |-> s * (d \div g)]
Int2Rat(i) == [n |-> i, d |-> 1]
NaN == [nan |-> TRUE]
IsNaN(x) == x = NaN

\* The arithmetic keeps the intermediate products small: a sum is taken
\* over the least common denominator, a product is reduced crosswise.
LCM(a, b) == (a \div GCD(a, b)) * b
RAdd(x, y) ==
    LET l == LCM(x.d, y.d)
    IN  Rat(x.n * (l \div x.d) + y.n * (l \div y.d), l)
RNeg(x) == [n |-> -x.n, d |-> x.d]
RSub(x, y) == RAdd(x, RNeg(y))
RMul(x, y) ==
    LET g1 == GCD(Abs(x.n), y.d)
        g2 == GCD(Abs(y.n), x.d)
    IN  Rat((x.n \div g1) * (y.n \div g2), (x.d \div g2) * (y.d \div g1))
RLess(x, y) == RSub(x, y).n < 0
RLeq(x, y) == RSub(x, y).n <= 0
RAbs(x) == [n |-> Abs(x.n), d |-> x.d]
\* x / y for y # 0.
RQuot(x, y) == RMul(x, IF y.n < 0 THEN [n |-> -y.d, d |-> -y.n] ELSE [n |-> y.d, d |-> y.n])
RMax(x, y) == IF RLess(x, y) THEN y ELSE x

\* Infinity and -Infinity, and the division of JavaScript: 0/0 is NaN and
\* x/0 is an infinity of the sign of x.
Infinity(sign) == [inf |-> sign]
IsFinite(x) == "n" \in DOMAIN x
JsDiv(x, y) ==
    IF y.n # 0 THEN RQuot(x, y)
    ELSE IF x.n = 0 THEN NaN
    ELSE Infinity(IF x.n < 0 THEN -1 ELSE 1)

\* The first k decimals of r/d (0 <= r < d), and the remainder left.
RECURSIVE Decimals(_, _, _)
Decimals(r, d, k) ==
    IF k = 0 THEN [q |-> 0, r |-> r]
    ELSE LET prev == Decimals(r, d, k - 1)
         IN  [q |-> prev.q * 10 + ((prev.r * 10) \div d), r |-> (prev.r * 10) % d]

Pow10(k) == IF k = 2 THEN 100 ELSE IF k = 3 THEN 1000 ELSE 1

\* x * 10^digits rounded to the nearest integer, a half away from zero: the
\* digits of x.toFixed(digits).
Scaled(x, digits) ==
    LET mag == Abs(x.n)
        frac == Decimals(mag % x.d, x.d, digits)
        m == (mag \div x.d) * Pow10(digits) + frac.q + (IF 2 * frac.r >= x.d THEN 1 ELSE 0)
    IN  IF x.n < 0 THEN -m ELSE m

\* parseFloat(x.toFixed(digits)) of a number, NaN and the infinities kept.
RoundTo(x, digits) == IF IsFinite(x) THEN Rat(Scaled(x, digits), Pow10(digits)) ELSE x

\* The sum of a sequence of rationals (halved, to keep the recursion shallow).
RECURSIVE RSum(_)
RSum(s) ==
    IF s = <<>> THEN Int2Rat(0)
    ELSE IF Len(s) = 1 THEN s[1]
    ELSE RAdd(RSum(SubSeq(s, 1, Len(s) \div 2)),
              RSum(SubSeq(s, Len(s) \div 2 + 1, Len(s))))

\* The concatenation of the sequences f[lo], ..., f[hi] (halved, to keep the
\* recursion shallow).
RECURSIVE Flatten(_, _, _)
Flatten(f, lo, hi) ==
    IF lo > hi THEN <<>>
    ELSE IF lo = hi THEN f[lo]
    ELSE Flatten(f, lo, (lo + hi) \div 2) \o Flatten(f, (lo + hi) \div 2 + 1, hi)

\* Array.prototype.sort with a comparator key(a) - key(b): a stable sort,
\* ascending by key.  Items are records with a rational field k.  The items
\* of the smallest key come first, in their order in s, then those of the
\* next key, and so on.
StableSort(s) ==
    LET keys == {s[i].k : i \in DOMAIN s}
        ordered == [r \in 1..Cardinality(keys) |->
                      CHOOSE k \in keys : Cardinality({q \in keys : RLess(q, k)}) = r - 1]
        bucket == [r \in DOMAIN ordered |-> SelectSeq(s, LAMBDA x : x.k = ordered[r])]
    IN  Flatten(bucket, 1, Cardinality(keys))

(***************************************************************************)
(* dataProcessor.ts: cells, rows and the cleaning pipeline.                *)
(***************************************************************************)
Null == [t |-> "null"]
Undefined == [t |-> "undefined"]
Str(s) == [t |-> "str", s |-> s]
Num(q) == [t |-> "num", q |-> q]
Bool(b) == [t |-> "bool", b |-> b]

\* The strings of the model that Number() parses, with their values; every
\* other string gives NaN.
NumericStrings == {"0", "1", "3"}
StrValue(s) == IF s = "0" THEN 0 ELSE IF s = "1" THEN 1 ELSE 3
\* The strings of the model that Date.parse() accepts: an ISO date, and the
\* numeric strings (which the legacy date parser of V8 reads as a year or
\* a month).
DateStrings == {"2024-01-01"} \cup NumericStrings

\* Number(v) of a non-null cell: a rational, or NaN.
ToNumber(v) ==
    IF v.t = "num" THEN v.q
    ELSE IF v.t = "bool" THEN (IF v.b THEN Int2Rat(1) ELSE Int2Rat(0))
    ELSE IF v.t = "str" /\ v.s \in NumericStrings THEN Int2Rat(StrValue(v.s))
    ELSE IF v.t = "str" /\ v.s = "" THEN Int2Rat(0)
    ELSE IF v.t = "null" THEN Int2Rat(0)
    ELSE NaN

\* The columns of every row, in key order (Object.keys of a row).
ColumnNames == <<"a", "b">>
ColumnSet == Range(ColumnNames)

IsMissing(v) == v = Null \/ v = Undefined

\* cleanData: null, undefined and '' become null.
cleanData(data) ==
    [i \in DOMAIN data |->
        [c \in ColumnSet |->
            IF data[i][c] = Null \/ data[i][c] = Undefined \/ data[i][c] = Str("")
            THEN Null ELSE data[i][c]]]

\* JSON.stringify of a cleaned row: the cells in key order, a string quoted
\* and a number bare; an undefined cell is left out with its key.
JSONCell(c, v) ==
    IF v.t = "undefined" THEN <<>>
    ELSE IF v.t = "null" THEN <<<<c, "null">>>>
    ELSE IF v.t = "str" THEN <<<<c, "quoted", v.s>>>>
    ELSE <<<<c, "number", v.q>>>>

RECURSIVE JSONCells(_, _)
JSONCells(row, cols) ==
    IF cols = <<>> THEN <<>>
    ELSE JSONCell(Head(cols), row[Head(cols)]) \o JSONCells(row, Tail(cols))

JSONStringify(row) == JSONCells(row, ColumnNames)

\* removeDuplicates: the first row of every JSON key, in order.
RECURSIVE removeDuplicatesFrom(_, _)
removeDuplicatesFrom(data, seen) ==
    IF data = <<>> THEN <<>>
    ELSE LET rowString == JSONStringify(Head(data))
         IN  IF rowString \in seen
             THEN removeDuplicatesFrom(Tail(data), seen)
             ELSE <<Head(data)>> \o removeDuplicatesFrom(Tail(data), seen \cup {rowString})

removeDuplicates(data) == removeDuplicatesFrom(data, {})

\* nonNullValues of detectColumnType: not null, not undefined, not ''.
TypedValues(values) ==
    FilterSeq(values, {v \in Range(values) : ~IsMissing(v) /\ v # Str("")})

IsBooleanLike(v) == v.t = "bool" \/ (v.t = "str" /\ v.s \in {"true", "false", "0", "1"})
DateParses(v) == v.t = "str" /\ v.s \in DateStrings

\* A variant that tests for booleans before numbers.
detectColumnType_booleanFirst(values) ==
    LET nonNullValues == TypedValues(values)
    IN  IF nonNullValues = <<>> THEN "string"
        ELSE IF \A i \in DOMAIN nonNullValues : IsBooleanLike(nonNullValues[i])
        THEN "boolean"
        ELSE IF \A i \in DOMAIN nonNullValues : ~IsNaN(ToNumber(nonNullValues[i]))
        THEN "number"
        ELSE IF \A i \in DOMAIN nonNullValues : DateParses(nonNullValues[i])
        THEN "date"
        ELSE "string"

detectColumnType(values) ==
    LET nonNullValues == TypedValues(values)
    IN  IF nonNullValues = <<>> THEN "string"
        ELSE IF \A i \in DOMAIN nonNullValues : ~IsNaN(ToNumber(nonNullValues[i]))
        THEN "number"
        ELSE IF \A i \in DOMAIN nonNullValues : IsBooleanLike(nonNullValues[i])
        THEN "boolean"
        ELSE IF \A i \in DOMAIN nonNullValues : DateParses(nonNullValues[i])
        THEN "date"
        ELSE "string"

ColumnValues(data, name) == [i \in DOMAIN data |-> data[i][name]]
NonNull(values) == FilterSeq(values, {v \in Range(values) : ~IsMissing(v)})

\* The number of elements of values equal to v.
Occurrences(values, v) == Cardinality({i \in DOMAIN values : values[i] = v})

\* A variant that takes the first value.
ModeOf_first(values) == values[1]

\* values.sort((a, b) => count(a) - count(b)).pop(): the last element of the
\* values sorted (stably) by ascending number of occurrences.
ModeOf(values) ==
    LET keyed == [i \in DOMAIN values |->
                    [k |-> Int2Rat(Occurrences(values, values[i])), v |-> values[i]]]
        sorted == StableSort(keyed)
    IN  sorted[Len(sorted)].v

\* The value fillMissingValues writes into the null cells of a column, or
\* Null when it leaves them alone.
FillValue(data, column) ==
    LET values == NonNull(ColumnValues(data, column.name))
    IN  IF values = <<>> THEN Null
        ELSE IF column.type = "number"
        THEN Num(RQuot(RSum([i \in DOMAIN values |-> ToNumber(values[i])]),
                       Int2Rat(Len(values))))
        ELSE IF column.type = "string"
        THEN ModeOf(values)
        ELSE Null

\* A variant of fillMissingValues that drops the rows it has filled in
\* (filter where the code maps).
fillMissingValues_dropFilled(data, columns) ==
    FilterSeq(data, {r \in Range(data) : \A c \in ColumnSet : ~IsMissing(r[c])})

fillMissingValues(data, columns) ==
    [i \in DOMAIN data |->
        [c \in ColumnSet |->
            LET column == columns[CHOOSE j \in DOMAIN columns : columns[j].name = c]
            IN  IF IsMissing(data[i][c]) /\ FillValue(data, column) # Null
                THEN FillValue(data, column)
                ELSE data[i][c]]]

\* A variant where filled holds the input rows themselves.
CopyRows_alias(data) == [rows |-> data, fresh |-> FALSE]

\* data.map(row => ({ ...row })): the same rows, as fresh objects.
CopyRows(data) == [rows |-> data, fresh |-> TRUE]

\* The rows of data as they are after fillMissingValues(data, columns), which
\* writes into the rows of filled: they are changed only when filled holds
\* the same objects.
RowsAfterFill(data, columns) ==
    IF CopyRows(data).fresh THEN data ELSE fillMissingValues(data, columns)

\* The column metadata processDataset derives from the deduplicated rows.
ColumnsOf(unique) ==
    [j \in DOMAIN ColumnNames |->
        LET name == ColumnNames[j]
            values == ColumnValues(unique, name)
            nonNullValues == NonNull(values)
        IN  [name |-> name,
             type |-> detectColumnType(values),
             nullable |-> Len(nonNullValues) < Len(unique),
             unique_count |-> Cardinality(Range(nonNullValues))]]

\* The rows of cleaned with a null in column name.
NullCount(cleaned, name) ==
    Cardinality({i \in DOMAIN cleaned : IsMissing(cleaned[i][name])})

\* Whether row i of cleaned is the first of its content: removeDuplicates
\* keeps these rows (the objects themselves), in order.
FirstOccurrence(cleaned, i) ==
    \A j \in 1..(i - 1) : JSONStringify(cleaned[j]) # JSONStringify(cleaned[i])

\* The rows of cleaned as they are after fillMissingValues(unique, columns):
\* the rows kept in unique are the objects of cleaned.
CleanedAfterFill(cleaned, uniqueAfter) ==
    [i \in DOMAIN cleaned |->
        IF FirstOccurrence(cleaned, i)
        THEN uniqueAfter[Cardinality({j \in 1..i : FirstOccurrence(cleaned, j)})]
        ELSE cleaned[i]]

\* A variant without the guard.
IsEmptyInput_never(raw) == FALSE

\* !rawData || rawData.length === 0 (the row lists of the model are lists).
IsEmptyInput(raw) == Len(raw) = 0

processDataset(raw) ==
    IF IsEmptyInput(raw) THEN [t |-> "error", message |-> "No data to process"]
    ELSE
    LET cleaned == cleanData(raw)
        unique == removeDuplicates(cleaned)
        columns == ColumnsOf(unique)
        filled == fillMissingValues(unique, columns)
        counted == CleanedAfterFill(cleaned, RowsAfterFill(unique, columns))
    IN  [t |-> "dataset",
         columns |-> columns,
         rows |-> filled,
         summary |->
            [total_rows |-> Len(filled),
             total_columns |-> Len(columns),
             missing_values |->
                [c \in {c \in ColumnSet : NullCount(counted, c) > 0} |->
                    NullCount(counted, c)],
             duplicates |-> Len(raw) - Len(unique)]]

\* The deduplicated rows of processDataset(raw) as they are after the call.
UniqueAfterFill(raw) ==
    LET unique == removeDuplicates(cleanData(raw))
    IN  RowsAfterFill(unique, ColumnsOf(unique))

\* The bounds of the cleaning inputs: the cells each column draws from.
MaxRows == 3
RawCells ==
    [a |-> {Null, Str(""), Str("x"), Str("1"), Str("true")},
     b |-> {Null, Str("x"), Str("1"), Str("3"), Str("2024-01-01")}]
RawRows == {row \in [ColumnSet -> UNION {RawCells[c] : c \in ColumnSet}] :
                \A c \in ColumnSet : row[c] \in RawCells[c]}
\* The row lists: every list shorter than MaxRows, and the lists of MaxRows
\* rows without the cells '' and '3'.
LongRows == {row \in RawRows : row.a # Str("") /\ row.b # Str("3")}
RawInputs == SeqUpTo(RawRows, MaxRows - 1) \cup [1..MaxRows -> LongRows]

IdleClean == rawData = Idle /\ processed = Idle /\ reprocessed = Idle /\ uniqueRows = Idle
IdleQuery == sql = Idle /\ qdata = Idle /\ site = Idle /\ qresult = Idle
IdleForecast == tsData = Idle /\ periods = Idle /\ env = Idle /\ prediction = Idle
IdleAnomaly == anData = Idle /\ anomalies = Idle
IdleKpi == kpiData = Idle /\ kpiColumns = Idle /\ kpis = Idle
IdleStats == statsData = Idle /\ statsColumns = Idle /\ statistics = Idle
IdleType == typeValues = Idle /\ detectedType = Idle
IdleFill == fillData = Idle /\ fillResult = Idle
IdleRepeat == repData = Idle /\ repFirst = Idle /\ repSecond = Idle
IdleTranslate == nlqQuery = Idle /\ nlqColumns = Idle /\ variant = Idle /\ apiKey = Idle /\ pc = Idle /\ requests = Idle /\ response = Idle /\ translation = Idle
IdleTrend == trendValues = Idle /\ trend = Idle
IdleRecommend == recAnomalies = Idle /\ recPrediction = Idle /\ recommendations = Idle
IdleUpload == uploads = Idle /\ datasets = Idle /\ storage = Idle /\ isProcessing = Idle /\ uploadError = Idle /\ success = Idle /\ timers = Idle
IdleChat == messages = Idle /\ chatInput = Idle /\ isLoading = Idle /\ currentDataset = Idle /\ chatCall = Idle /\ submitted = Idle
IdleAlert == alerts = Idle /\ alertCall = Idle

InitClean ==
    /\ rawData \in RawInputs
    /\ processed = NoResult
    /\ reprocessed = NoResult
    /\ uniqueRows = NoResult
    /\ IdleQuery /\ IdleForecast /\ IdleAnomaly /\ IdleKpi /\ IdleStats /\ IdleType /\ IdleFill /\ IdleRepeat /\ IdleTranslate /\ IdleTrend /\ IdleRecommend /\ IdleUpload /\ IdleChat /\ IdleAlert

\* A call of processDataset on the raw rows.
ProcessDataset ==
    /\ processed = NoResult
    /\ processed' = processDataset(rawData)
    /\ uniqueRows' = IF IsEmptyInput(rawData) THEN NoResult
                      ELSE [rows |-> UniqueAfterFill(rawData)]
    /\ UNCHANGED <<rawData, reprocessed, queryVars, forecastVars, anomalyVars, kpiVars, statsVars, typeVars, fillVars, repeatVars, translateVars, trendVars, recommendVars, uploadVars, chatVars, alertVars>>

\* A second call of processDataset, on the rows the first one returned.
ReprocessDataset ==
    /\ processed # NoResult
    /\ processed.t = "dataset"
    /\ reprocessed = NoResult
    /\ reprocessed' = processDataset(processed.rows)
    /\ UNCHANGED <<rawData, processed, uniqueRows, queryVars, forecastVars, anomalyVars, kpiVars, statsVars, typeVars, fillVars, repeatVars, translateVars, trendVars, recommendVars, uploadVars, chatVars, alertVars>>

NextClean == ProcessDataset \/ ReprocessDataset

SpecClean == InitClean /\ [][NextClean]_vars

(***************************************************************************)
(* nlqService.ts: the query executor.  A text is a sequence of characters, *)
(* so that includes(), toLowerCase() and the regular expressions of the    *)
(* code are computed on the characters.                                    *)
(***************************************************************************)
\* The texts of the model, spelled out.
Chars ==
    ("SELECT COUNT(*)" :> <<"S", "E", "L", "E", "C", "T", " ", "C", "O", "U", "N", "T", "(", "*", ")">>)
    @@ ("select *" :> <<"s", "e", "l", "e", "c", "t", " ", "*">>)
    @@ ("AVG(sales)" :> <<"A", "V", "G", "(", "s", "a", "l", "e", "s", ")">>)
    @@ ("average" :> <<"a", "v", "e", "r", "a", "g", "e">>)
    @@ ("SUM(sales)" :> <<"S", "U", "M", "(", "s", "a", "l", "e", "s", ")">>)
    @@ ("sum()" :> <<"s", "u", "m", "(", ")">>)
    @@ ("GROUP BY region" :> <<"G", "R", "O", "U", "P", " ", "B", "Y", " ", "r", "e", "g", "i", "o", "n">>)
    @@ ("ORDER BY sales DESC" :> <<"O", "R", "D", "E", "R", " ", "B", "Y", " ", "s", "a", "l", "e", "s", " ", "D", "E", "S", "C">>)
    @@ ("ORDER BY sales ASC" :> <<"O", "R", "D", "E", "R", " ", "B", "Y", " ", "s", "a", "l", "e", "s", " ", "A", "S", "C">>)
    @@ ("description" :> <<"d", "e", "s", "c", "r", "i", "p", "t", "i", "o", "n">>)
    @@ ("FROM data" :> <<"F", "R", "O", "M", " ", "d", "a", "t", "a">>)
    @@ ("select count(*)" :> <<"s", "e", "l", "e", "c", "t", " ", "c", "o", "u", "n", "t", "(", "*", ")">>)
    @@ ("avg(" :> <<"a", "v", "g", "(">>)
    @@ ("sum(" :> <<"s", "u", "m", "(">>)
    @@ ("group by" :> <<"g", "r", "o", "u", "p", " ", "b", "y">>)
    @@ ("order by" :> <<"o", "r", "d", "e", "r", " ", "b", "y">>)
    @@ ("desc" :> <<"d", "e", "s", "c">>)
    @@ ("asc" :> <<"a", "s", "c">>)
    @@ ("group by " :> <<"g", "r", "o", "u", "p", " ", "b", "y", " ">>)
    @@ ("order by " :> <<"o", "r", "d", "e", "r", " ", "b", "y", " ">>)
    @@ (" desc" :> <<" ", "d", "e", "s", "c">>)
    @@ (" asc" :> <<" ", "a", "s", "c">>)
    @@ (")" :> <<")">>)
    @@ ("total_count" :> <<"t", "o", "t", "a", "l", "_", "c", "o", "u", "n", "t">>)
    @@ ("average_" :> <<"a", "v", "e", "r", "a", "g", "e", "_">>)
    @@ ("total_" :> <<"t", "o", "t", "a", "l", "_">>)
    @@ ("total" :> <<"t", "o", "t", "a", "l">>)
    @@ ("region" :> <<"r", "e", "g", "i", "o", "n">>)
    @@ ("sales" :> <<"s", "a", "l", "e", "s">>)
    @@ ("rev" :> <<"r", "e", "v">>)
    @@ ("revenue" :> <<"r", "e", "v", "e", "n", "u", "e">>)
    @@ ("unit_cost" :> <<"u", "n", "i", "t", "_", "c", "o", "s", "t">>)

UpperCase == <<"A", "B", "C", "D", "E", "F", "G", "H", "I", "J", "K", "L", "M", "N", "O", "P", "Q", "R", "S", "T", "U", "V", "W", "X", "Y", "Z">>
LowerCase == <<"a", "b", "c", "d", "e", "f", "g", "h", "i", "j", "k", "l", "m", "n", "o", "p", "q", "r", "s", "t", "u", "v", "w", "x", "y", "z">>
Digits == {"0", "1", "2", "3", "4", "5", "6", "7", "8", "9"}

\* String.prototype.toLowerCase, and the folding of the i flag (ASCII).
ToLowerChar(c) ==
    IF \E i \in DOMAIN UpperCase : UpperCase[i] = c
    THEN LowerCase[CHOOSE i \in DOMAIN UpperCase : UpperCase[i] = c]
    ELSE c
ToLowerCase(text) == [i \in DOMAIN text |-> ToLowerChar(text[i])]

\* The class \w of a regular expression.
IsWordChar(c) == c \in Range(UpperCase) \cup Range(LowerCase) \cup Digits \cup {"_"}

\* Whether pat occurs in text at offset i (0-based).
OccursAt(text, i, pat) ==
    /\ i + Len(pat) <= Len(text)
    /\ \A j \in 1..Len(pat) : text[i + j] = pat[j]

\* String.prototype.includes.
Includes(text, pat) == \E i \in 0..Len(text) : OccursAt(text, i, pat)

\* The length of the longest run of word characters of text from offset i.
RECURSIVE WordRun(_, _)
WordRun(text, i) ==
    IF i + 1 <= Len(text) /\ IsWordChar(text[i + 1]) THEN 1 + WordRun(text, i + 1) ELSE 0

NoMatch == <<"no match">>

\* text.match(/<prefix>(\w+)<suffix>/i)[1], or NoMatch: the group of the
\* leftmost match.  prefix and suffix are lower case, and the suffix is empty
\* or starts with a character that is not of \w, so the group is the whole
\* run of word characters after the prefix.
MatchGroup(text, prefix, suffix) ==
    LET lower == ToLowerCase(text)
        at == {i \in 0..Len(text) :
                 /\ OccursAt(lower, i, prefix)
                 /\ WordRun(text, i + Len(prefix)) >= 1
                 /\ OccursAt(lower, i + Len(prefix) + WordRun(text, i + Len(prefix)), suffix)}
    IN  IF at = {} THEN NoMatch
        ELSE LET i == CHOOSE i \in at : \A k \in at : i <= k
             IN  SubSeq(text, i + Len(prefix) + 1,
                        i + Len(prefix) + WordRun(text, i + Len(prefix)))

\* row[column]: the cell of a row under a key, undefined for a key it lacks.
Cell(row, column) == IF column \in DOMAIN row THEN row[column] ELSE Undefined

\* Number(v) || 0.
NumberOrZero(v) == IF IsNaN(ToNumber(v)) THEN Int2Rat(0) ELSE ToNumber(v)

\* Number.prototype.toFixed: the decimal string of a number rounded to the
\* given digits, or "NaN".
ToFixed(x, digits) ==
    IF IsNaN(x) THEN [t |-> "str", s |-> "NaN"]
    ELSE [t |-> "fixed", digits |-> digits, scaled |-> Scaled(x, digits)]

\* The result of the count(*) shape.
CountResult(data) == <<(Chars["total_count"] :> Num(Int2Rat(Len(data))))>>

\* The result of the avg shape for a matched column.
AvgResult(column, data) ==
    LET numbers == [i \in DOMAIN data |-> ToNumber(Cell(data[i], column))]
        values == FilterSeq(numbers, {v \in Range(numbers) : ~IsNaN(v)})
        avg == IF values = <<>> THEN NaN
               ELSE RQuot(RSum(values), Int2Rat(Len(values)))
    IN  <<((Chars["average_"] \o column) :> ToFixed(avg, 2))>>

\* The result of the sum shape for a matched column.
SumResult(column, data) ==
    LET sum == RSum([i \in DOMAIN data |-> NumberOrZero(Cell(data[i], column))])
    IN  <<((Chars["total_"] \o column) :> Num(sum))>>

\* The property key a cell is converted to: an array index for a
\* non-negative integer, a string otherwise.
PropertyKey(v) ==
    IF v.t = "num" /\ v.q.d = 1 /\ v.q.n >= 0 THEN [t |-> "index", i |-> v.q.n]
    ELSE IF v.t = "str" THEN v
    ELSE [t |-> "str", s |-> v.t]

\* The keys of grouped in the order of Object.entries: the array indices
\* ascending, then the strings in the order of their first row.
FirstSeen(keys) ==
    LET first == SelectSeq([i \in DOMAIN keys |-> i],
                           LAMBDA i : \A j \in 1..(i - 1) : keys[j] # keys[i])
    IN  [p \in DOMAIN first |-> keys[first[p]]]

EntryKeys(keys) ==
    LET first == FirstSeen(keys)
        idx == FilterSeq(first, {k \in Range(first) : k.t = "index"})
        strs == FilterSeq(first, {k \in Range(first) : k.t = "str"})
        sortedIdx == StableSort([j \in DOMAIN idx |-> [k |-> Int2Rat(idx[j].i), v |-> idx[j]]])
    IN  [j \in DOMAIN sortedIdx |-> sortedIdx[j].v] \o strs

GroupCap == 20
OrderCap == 10

\* The result of the group-by shape for the matched columns.
GroupResult(groupCol, sumCol, data) ==
    LET keys == [i \in DOMAIN data |-> PropertyKey(Cell(data[i], groupCol))]
        grouped(key) ==
            RSum([i \in DOMAIN data |->
                    IF keys[i] = key THEN NumberOrZero(Cell(data[i], sumCol))
                    ELSE Int2Rat(0)])
        entries == EntryKeys(keys)
        rows == [j \in DOMAIN entries |->
                    [k |-> RSub(Int2Rat(0), grouped(entries[j])),
                     v |-> (Chars["total"] :> Num(grouped(entries[j])))
                           @@ (groupCol :> entries[j])]]
        sorted == StableSort(rows)
    IN  Slice0([j \in DOMAIN sorted |-> sorted[j].v], GroupCap)

\* The result of the order-by shapes for a matched column.
OrderResult(column, data, descending) ==
    LET keyed == [i \in DOMAIN data |->
                    [k |-> IF descending
                           THEN RSub(Int2Rat(0), NumberOrZero(Cell(data[i], column)))
                           ELSE NumberOrZero(Cell(data[i], column)),
                     v |-> data[i]]]
        sorted == StableSort(keyed)
    IN  Slice0([j \in DOMAIN sorted |-> sorted[j].v], OrderCap)

\* The shapes of executeQuery in the order the code tests them, each with the
\* test of its keyword and the groups of its regular expressions.
\* A variant that tests the group-by shape before the sum shape.
ShapeOrder_groupBeforeSum == <<"count", "avg", "group", "sum", "desc", "asc">>

ShapeOrder == <<"count", "avg", "sum", "group", "desc", "asc">>

Keyword(shape, text) ==
    LET lowerSQL == ToLowerCase(text)
    IN  CASE shape = "count" -> Includes(lowerSQL, Chars["select count(*)"])
          [] shape = "avg" -> Includes(lowerSQL, Chars["avg("]) \/ Includes(lowerSQL, Chars["average"])
          [] shape = "sum" -> Includes(lowerSQL, Chars["sum("])
          [] shape = "group" -> Includes(lowerSQL, Chars["group by"])
          [] shape = "desc" -> Includes(lowerSQL, Chars["order by"]) /\ Includes(lowerSQL, Chars["desc"])
          [] shape = "asc" -> Includes(lowerSQL, Chars["order by"]) /\ Includes(lowerSQL, Chars["asc"])

Extracted(shape, text) ==
    CASE shape = "count" -> TRUE
      [] shape = "avg" -> MatchGroup(text, Chars["avg("], Chars[")"]) # NoMatch
      [] shape = "sum" -> MatchGroup(text, Chars["sum("], Chars[")"]) # NoMatch
      [] shape = "group" -> /\ MatchGroup(text, Chars["group by "], <<>>) # NoMatch
                            /\ MatchGroup(text, Chars["sum("], Chars[")"]) # NoMatch
      [] shape = "desc" -> MatchGroup(text, Chars["order by "], Chars[" desc"]) # NoMatch
      [] shape = "asc" -> MatchGroup(text, Chars["order by "], Chars[" asc"]) # NoMatch

ShapeResult(shape, text, data) ==
    CASE shape = "count" -> CountResult(data)
      [] shape = "avg" -> AvgResult(MatchGroup(text, Chars["avg("], Chars[")"]), data)
      [] shape = "sum" -> SumResult(MatchGroup(text, Chars["sum("], Chars[")"]), data)
      [] shape = "group" -> GroupResult(MatchGroup(text, Chars["group by "], <<>>),
                                        MatchGroup(text, Chars["sum("], Chars[")"]), data)
      [] shape = "desc" -> OrderResult(MatchGroup(text, Chars["order by "], Chars[" desc"]), data, TRUE)
      [] shape = "asc" -> OrderResult(MatchGroup(text, Chars["order by "], Chars[" asc"]), data, FALSE)

\* The size of the raw sample: data.slice(0, 100) in the client service,
\* data.slice(0, 10) in the backend-delegated one.
ClientSliceCap == 100
BackendSliceCap == 10
\* A variant with the sample size of the client service in both services.
SliceCap_clientEverywhere(where) == ClientSliceCap

SliceCap(where) == IF where = "client" THEN ClientSliceCap ELSE BackendSliceCap

\* executeQuery: the if statements of the code from shape number k on; a
\* shape returns when its keyword is in the text and its columns are
\* extracted, and the raw sample is returned after the last one.  No
\* statement of the try block throws on a text and a list of rows, so the
\* catch block, which returns the same sample, is never entered.
RECURSIVE executeFrom(_, _, _, _)
executeFrom(k, text, data, where) ==
    IF k > Len(ShapeOrder) THEN Slice0(data, SliceCap(where))
    ELSE IF Keyword(ShapeOrder[k], text) /\ Extracted(ShapeOrder[k], text)
    THEN ShapeResult(ShapeOrder[k], text, data)
    ELSE executeFrom(k + 1, text, data, where)

executeQuery(text, data, where) == executeFrom(1, text, data, where)

\* The plan texts of the model: at most MaxPhrases of these phrases, joined
\* by single spaces.
MaxPhrases == 2
Phrases == {"SELECT COUNT(*)", "select *", "AVG(sales)", "average", "SUM(sales)",
            "sum()", "GROUP BY region", "ORDER BY sales DESC", "ORDER BY sales ASC",
            "description"}

RECURSIVE PlanText(_)
PlanText(plan) ==
    IF plan = <<>> THEN <<>>
    ELSE IF Len(plan) = 1 THEN Chars[plan[1]]
    ELSE Chars[plan[1]] \o <<" ">> \o PlanText(Tail(plan))

\* The rows of the model: a region and a sales cell.
QRow(region, sales) == (Chars["region"] :> region) @@ (Chars["sales"] :> sales)
N(i) == Num(Int2Rat(i))
ScenarioBase == << QRow(Str("A"), N(30)), QRow(Str("A"), N(20)), QRow(Str("B"), N(10)) >>
QueryBases ==
    { ScenarioBase,
      << QRow(Str("B"), N(10)), QRow(Str("A"), N(30)) >>,
      << QRow(Str("B"), Str("x")), QRow(Null, N(20)), QRow(Str("A"), Str("1")) >> }
\* The row lists: the rows of a base repeated up to a short length, and the
\* rows of the scenario repeated up to one row more than each cap of the code.
MaxSmallRows == 4
LongLens == {OrderCap + 1, GroupCap + 1, ClientSliceCap + 1}
QueryInputs ==
    [base : QueryBases, n : 0..MaxSmallRows] \cup [base : {ScenarioBase}, n : LongLens]

\* The row list [base, n]: the rows of base repeated up to length n.
Data(d) == [i \in 1..d.n |-> d.base[((i - 1) % Len(d.base)) + 1]]

InitQuery ==
    /\ sql \in SeqUpTo(Phrases, MaxPhrases)
    /\ qdata \in QueryInputs
    /\ site \in {"client", "backend"}
    /\ qresult = NoResult
    /\ IdleClean /\ IdleForecast /\ IdleAnomaly /\ IdleKpi /\ IdleStats /\ IdleType /\ IdleFill /\ IdleRepeat /\ IdleTranslate /\ IdleTrend /\ IdleRecommend /\ IdleUpload /\ IdleChat /\ IdleAlert

\* A call of executeQuery.
ExecuteQuery ==
    /\ qresult = NoResult
    /\ qresult' = [rows |-> executeQuery(PlanText(sql), Data(qdata), site)]
    /\ UNCHANGED <<sql, qdata, site, cleanVars, forecastVars, anomalyVars, kpiVars, statsVars, typeVars, fillVars, repeatVars, translateVars, trendVars, recommendVars, uploadVars, chatVars, alertVars>>

NextQuery == ExecuteQuery

SpecQuery == InitQuery /\ [][NextQuery]_vars

(***************************************************************************)
(* voiceService.ts: the time series of a metric, forecasting and anomaly   *)
(* detection.  Time is counted in hours since the epoch (86400000 ms are   *)
(* 24 hours).  A date-only string "YYYY-MM-DD" is the number of its day, a *)
(* full ISO timestamp is its instant.                                      *)
(***************************************************************************)
DateOnly(day) == [t |-> "date", day |-> day]
Instant(h) == [t |-> "instant", h |-> h]
DayHours == 24

\* new Date(s).getTime(): a date-only string is midnight UTC of its day.
GetTime(date) == IF date.t = "date" THEN date.day * DayHours ELSE date.h

\* The local time zone of the runtime: the offsets from UTC of standard and
\* of daylight saving time, and the instants between which the latter holds.
Offset(tz, utc) == IF tz.from <= utc /\ utc < tz.to THEN tz.dst ELSE tz.std
LocalTime(tz, utc) == utc + Offset(tz, utc)
\* UTC(t) of ECMAScript: the instant of a local time; a local time that
\* occurs twice or not at all is read with the offset before the transition.
UTCOfLocal(tz, local) ==
    LET viaStd == local - tz.std
        viaDst == local - tz.dst
        stdHolds == Offset(tz, viaStd) = tz.std
        dstHolds == Offset(tz, viaDst) = tz.dst
    IN  IF stdHolds /\ dstHolds THEN (IF viaStd < viaDst THEN viaStd ELSE viaDst)
        ELSE IF stdHolds THEN viaStd
        ELSE IF dstHolds THEN viaDst
        ELSE (IF local - tz.std < tz.to /\ tz.from <= local - tz.std THEN viaStd ELSE viaDst)

\* d = new Date(t); d.setDate(d.getDate() + i): the same local time of day,
\* i local calendar days later.
SetDatePlus(tz, t, i) == UTCOfLocal(tz, LocalTime(tz, t) + i * DayHours)

\* toISOString().split('T')[0]: the UTC day of an instant.
ISODate(t) == DateOnly(t \div DayHours)

\* The rows of the model have a date field (row.date || row.timestamp,
\* Undefined when absent) and the metric cell rev.
\* The series both functions build: the date of the row or a synthetic
\* timestamp, and Number(row[metric]) || 0; the points whose value is NaN
\* are filtered out.
BuildSeries(data, now) ==
    LET points == [i \in DOMAIN data |->
                     [date |-> IF data[i].date # Undefined THEN data[i].date
                               ELSE Instant(now - (Len(data) - (i - 1)) * DayHours),
                      value |-> NumberOrZero(data[i].rev)]]
    IN  SelectSeq(points, LAMBDA v : ~IsNaN(v.value))

\* .sort((a, b) => new Date(a.date).getTime() - new Date(b.date).getTime())
SortByDate(points) ==
    LET sorted == StableSort([i \in DOMAIN points |->
                                [k |-> Int2Rat(GetTime(points[i].date)), v |-> points[i]]])
    IN  [i \in DOMAIN sorted |-> sorted[i].v]

Alpha == Rat(3, 10)

RECURSIVE exponentialSmoothing(_, _)
exponentialSmoothing(values, alpha) ==
    IF Len(values) = 1 THEN <<values[1]>>
    ELSE LET smoothed == exponentialSmoothing(SubSeq(values, 1, Len(values) - 1), alpha)
         IN  Append(smoothed,
                    RAdd(RMul(alpha, values[Len(values)]),
                         RMul(RSub(Int2Rat(1), alpha), smoothed[Len(smoothed)])))

\* linearRegression of y against x.
linearRegression(x, y) ==
    LET n == Int2Rat(Len(x))
        sumX == RSum(x)
        sumY == RSum(y)
        sumXY == RSum([i \in DOMAIN x |-> RMul(x[i], y[i])])
        sumXX == RSum([i \in DOMAIN x |-> RMul(x[i], x[i])])
        slope == JsDiv(RSub(RMul(n, sumXY), RMul(sumX, sumY)),
                       RSub(RMul(n, sumXX), RMul(sumX, sumX)))
    IN  IF IsFinite(slope)
        THEN [slope |-> slope, intercept |-> RQuot(RSub(sumY, RMul(slope, sumX)), n)]
        ELSE [slope |-> NaN, intercept |-> NaN]

Mean(values) == RQuot(RSum(values), Int2Rat(Len(values)))
\* The population variance of values.
Variance(values) ==
    LET mean == Mean(values)
    IN  RQuot(RSum([i \in DOMAIN values |->
                      RMul(RSub(values[i], mean), RSub(values[i], mean))]),
              Int2Rat(Len(values)))

\* Math.max(0, Math.min(1, x)): NaN stays NaN.
Clamp01(x) ==
    IF IsNaN(x) THEN NaN
    ELSE IF ~IsFinite(x) THEN (IF x.inf > 0 THEN Int2Rat(1) ELSE Int2Rat(0))
    ELSE IF RLess(x, Int2Rat(0)) THEN Int2Rat(0)
    ELSE IF RLess(Int2Rat(1), x) THEN Int2Rat(1)
    ELSE x

\* 1 - x.
OneMinus(x) ==
    IF IsNaN(x) THEN NaN
    ELSE IF ~IsFinite(x) THEN Infinity(-x.inf)
    ELSE RSub(Int2Rat(1), x)

\* The floor at 0 of the predicted value and of the lower bound.
FloorAtZero(x) == RMax(Int2Rat(0), x)
\* The upper bound: rounded, not floored.
UpperBound(x) == x

\* The accuracy score: parseFloat(Math.max(0, Math.min(1, r2)).toFixed(3)).
AccuracyScore(mse, variance) == RoundTo(Clamp01(OneMinus(JsDiv(mse, variance))), 3)

\* The prediction of step i.
PredictionAt(i, n, slope, intercept, confidenceInterval, lastDate, tz) ==
    LET futureIndex == Int2Rat(n + i)
        predictedValue == RAdd(RMul(slope, futureIndex), intercept)
        trendAdjustment == RMul(RMul(slope, Int2Rat(i)), Rat(1, 10))
        adjustedValue == RAdd(predictedValue, trendAdjustment)
    IN  [date |-> ISODate(SetDatePlus(tz, GetTime(lastDate), i)),
         value |-> RoundTo(FloorAtZero(adjustedValue), 2),
         confidence_lower |-> RoundTo(FloorAtZero(RSub(adjustedValue, confidenceInterval)), 2),
         confidence_upper |-> RoundTo(UpperBound(RAdd(adjustedValue, confidenceInterval)), 2)]

predictTimeSeries(data, nPeriods, e) ==
    LET timeSeriesData == SortByDate(BuildSeries(data, e.now))
    IN  IF Len(timeSeriesData) < 2
        THEN [metric |-> "rev", predictions |-> <<>>, model_type |-> "insufficient_data"]
        ELSE
        LET values == [i \in DOMAIN timeSeriesData |-> timeSeriesData[i].value]
            indices == [i \in DOMAIN timeSeriesData |-> Int2Rat(i - 1)]
            smoothed == exponentialSmoothing(values, Alpha)
            fit == linearRegression(indices, smoothed)
            lastDate == timeSeriesData[Len(timeSeriesData)].date
            residuals == [i \in DOMAIN smoothed |-> RAbs(RSub(values[i], smoothed[i]))]
            mae == Mean(residuals)
            confidenceInterval == RMul(mae, Rat(196, 100))
            mse == Mean([i \in DOMAIN residuals |-> RMul(residuals[i], residuals[i])])
        IN  [metric |-> "rev",
             predictions |->
                [i \in 1..nPeriods |->
                    PredictionAt(i, Len(timeSeriesData), fit.slope, fit.intercept,
                                 confidenceInterval, lastDate, e.tz)],
             accuracy_score |-> AccuracyScore(mse, Variance(values)),
             model_type |-> "linear_regression_with_exponential_smoothing"]

\* The thresholds of the z-score: an anomaly above 2, medium above 2.5, high
\* above 3.
\* A variant with a threshold of 1.
AnomalyThreshold_one == Rat(1, 1)

AnomalyThreshold == Rat(2, 1)
\* A variant where the medium tier begins at 2.4.
MediumThreshold_lower == Rat(12, 5)

MediumThreshold == Rat(5, 2)
\* A variant where the high tier begins at the medium threshold.
HighThreshold_fromMedium == Rat(5, 2)

HighThreshold == Rat(3, 1)

\* Math.abs((value - mean) / stdDev) > c, with stdDev the square root of the
\* variance: the squares are compared.  With a variance of 0 the z-score is
\* NaN (0/0) and no comparison holds.
ZScoreAbove(value, mean, variance, c) ==
    /\ variance.n # 0
    /\ RLess(RMul(RMul(c, c), variance), RMul(RSub(value, mean), RSub(value, mean)))

\* ((value - mean) / mean) * 100, rounded to 2 decimals.
Deviation(value, mean) ==
    LET ratio == JsDiv(RSub(value, mean), mean)
    IN  IF IsFinite(ratio) THEN RoundTo(RMul(ratio, Int2Rat(100)), 2) ELSE ratio

detectAnomalies(data, now) ==
    LET points == BuildSeries(data, now)
    IN  IF Len(points) < 3 THEN <<>>
        ELSE
        LET values == [i \in DOMAIN points |-> points[i].value]
            mean == Mean(values)
            variance == Variance(values)
            results == [i \in DOMAIN points |->
                [timestamp |-> points[i].date,
                 metric |-> "rev",
                 value |-> points[i].value,
                 expected_value |-> mean,
                 deviation |-> Deviation(points[i].value, mean),
                 is_anomaly |-> ZScoreAbove(points[i].value, mean, variance, AnomalyThreshold),
                 severity |->
                    IF ZScoreAbove(points[i].value, mean, variance, HighThreshold) THEN "high"
                    ELSE IF ZScoreAbove(points[i].value, mean, variance, MediumThreshold)
                    THEN "medium"
                    ELSE "low"]]
        IN  SelectSeq(results, LAMBDA r : r.is_anomaly)

\* The inputs of the forecasts: at most MaxPoints rows, dated with one of two
\* consecutive days or undated; at most MaxPeriods periods.
MaxPoints == 3
MaxPeriods == 4
BaseDay == 10
MetricCells == {N(0), N(1), N(2), Str("x")}
SeriesRows == [date : {Undefined, DateOnly(BaseDay), DateOnly(BaseDay + 1)}, rev : MetricCells]

\* The runtimes of the model: the clock reads 15:00 UTC of day BaseDay + 2;
\* the local time zone is UTC, a zone of fixed offset +9, or a zone of
\* offset -5 whose daylight saving time (offset -4) begins at 07:00 UTC of
\* day BaseDay + 2 (02:00 local time).

UTCZone == [std |-> 0, dst |-> 0, from |-> 0, to |-> 0]
FixedZone == [std |-> 9, dst |-> 9, from |-> 0, to |-> 0]
DstZone == [std |-> -5, dst |-> -4, from |-> (BaseDay + 2) * DayHours + 7,
            to |-> (BaseDay + 200) * DayHours + 6]
Runtimes == [now : {(BaseDay + 2) * DayHours + 15}, tz : {UTCZone, FixedZone, DstZone}]

InitForecast ==
    /\ tsData \in SeqUpTo(SeriesRows, MaxPoints)
    /\ periods \in 0..MaxPeriods
    /\ env \in Runtimes
    /\ prediction = NoResult
    /\ anData = Idle /\ anomalies = Idle
    /\ IdleClean /\ IdleQuery /\ IdleKpi /\ IdleStats /\ IdleType /\ IdleFill /\ IdleRepeat /\ IdleTranslate /\ IdleTrend /\ IdleRecommend /\ IdleUpload /\ IdleChat /\ IdleAlert

\* A call of predictTimeSeries.
PredictTimeSeries ==
    /\ prediction = NoResult
    /\ prediction' = predictTimeSeries(tsData, periods, env)
    /\ UNCHANGED <<tsData, periods, env, cleanVars, queryVars, anomalyVars, kpiVars, statsVars, typeVars, fillVars, repeatVars, translateVars, trendVars, recommendVars, uploadVars, chatVars, alertVars>>

NextForecast == PredictTimeSeries

SpecForecast == InitForecast /\ [][NextForecast]_vars

\* The inputs of the anomaly detector: at most MaxAnomalyPoints rows, all
\* dated (day by day) or all undated, and the rows of the scenario of the
\* specification.
MaxAnomalyPoints == 6
AnomalyCells == {N(0), N(1), Str("x")}
ScenarioRows ==
    << [date |-> DateOnly(1), rev |-> N(100)],
       [date |-> DateOnly(2), rev |-> N(110)],
       [date |-> DateOnly(3), rev |-> N(1000)] >>
\* The longer series: dated rows of the values 0 and 1, long enough for the
\* z-scores of the medium and high tiers (a z-score of n points is at most
\* the square root of n - 1).
MaxLongPoints == 11
LongSeries ==
    UNION {{[i \in 1..k |-> [date |-> DateOnly(BaseDay + i), rev |-> N(cells[i])]] :
              cells \in [1..k -> {0, 1}]} :
           k \in (MaxAnomalyPoints + 1)..MaxLongPoints}
AnomalyInputs ==
    {ScenarioRows} \cup LongSeries \cup
    UNION {{[i \in 1..k |-> [date |-> IF dated THEN DateOnly(BaseDay + i) ELSE Undefined,
                             rev |-> cells[i]]] :
              cells \in [1..k -> AnomalyCells], dated \in BOOLEAN} :
           k \in 0..MaxAnomalyPoints}

InitAnomaly ==
    /\ anData \in AnomalyInputs
    /\ anomalies = NoResult
    /\ env \in {r \in Runtimes : r.tz = UTCZone}
    /\ tsData = Idle /\ periods = Idle /\ prediction = Idle
    /\ IdleClean /\ IdleQuery /\ IdleKpi /\ IdleStats /\ IdleType /\ IdleFill /\ IdleRepeat /\ IdleTranslate /\ IdleTrend /\ IdleRecommend /\ IdleUpload /\ IdleChat /\ IdleAlert

\* A call of detectAnomalies.
DetectAnomalies ==
    /\ anomalies = NoResult
    /\ anomalies' = [items |-> detectAnomalies(anData, env.now)]
    /\ UNCHANGED <<anData, env, tsData, periods, prediction, cleanVars, queryVars, kpiVars, statsVars, typeVars, fillVars, repeatVars, translateVars, trendVars, recommendVars, uploadVars, chatVars, alertVars>>

NextAnomaly == DetectAnomalies

SpecAnomaly == InitAnomaly /\ [][NextAnomaly]_vars

(***************************************************************************)
(* voiceService.ts: detectTrend and calculateKPIs.                         *)
(***************************************************************************)
\* detectTrend: the slope of the values against their indices, compared with
\* 1% of their average.
detectTrend(values) ==
    IF Len(values) < 2 THEN "stable"
    ELSE
    LET indices == [i \in DOMAIN values |-> Int2Rat(i - 1)]
        slope == linearRegression(indices, values).slope
        relativeSlopeThreshold == RMul(Mean(values), Rat(1, 100))
    IN  IF RLess(relativeSlopeThreshold, slope) THEN "up"
        ELSE IF RLess(slope, RNeg(relativeSlopeThreshold)) THEN "down"
        ELSE "stable"

\* values.slice(-n): the last n values.
LastValues(values, n) ==
    IF Len(values) <= n THEN values ELSE SubSeq(values, Len(values) - n + 1, Len(values))

ToUpperChar(c) ==
    IF \E i \in DOMAIN LowerCase : LowerCase[i] = c
    THEN UpperCase[CHOOSE i \in DOMAIN LowerCase : LowerCase[i] = c]
    ELSE c

\* column.replace(/_/g, ' ').replace(/\b\w/g, l => l.toUpperCase()).
KpiName(column) ==
    LET spaced == [i \in DOMAIN column |-> IF column[i] = "_" THEN " " ELSE column[i]]
    IN  [i \in DOMAIN spaced |->
            IF IsWordChar(spaced[i]) /\ (i = 1 \/ ~IsWordChar(spaced[i - 1]))
            THEN ToUpperChar(spaced[i]) ELSE spaced[i]]

KpiUnit(column) ==
    IF Includes(ToLowerCase(column), Chars["revenue"])
       \/ Includes(ToLowerCase(column), Chars["sales"])
    THEN "$" ELSE ""

TrendWindow == 10

\* The values of a column: Number(row[column]) of every row, NaN dropped.
KpiValues(data, column) ==
    SelectSeq([i \in DOMAIN data |-> ToNumber(Cell(data[i], column))],
              LAMBDA v : ~IsNaN(v))

\* A variant that divides by the previous value without testing it.
KpiChange_unguarded(currentValue, previousValue) ==
    LET ratio == JsDiv(RSub(currentValue, previousValue), previousValue)
    IN  IF IsFinite(ratio) THEN RMul(ratio, Int2Rat(100)) ELSE ratio

\* The change in percent of the current value against the previous one.
KpiChange(currentValue, previousValue) ==
    IF previousValue # Int2Rat(0)
    THEN RMul(RQuot(RSub(currentValue, previousValue), previousValue), Int2Rat(100))
    ELSE Int2Rat(0)

RECURSIVE calculateKPIs(_, _)
calculateKPIs(data, columns) ==
    IF columns = <<>> THEN <<>>
    ELSE
    LET column == Head(columns)
        values == KpiValues(data, column)
        rest == calculateKPIs(data, Tail(columns))
    IN  IF Len(values) = 0 THEN rest
        ELSE
        LET currentValue == values[Len(values)]
            previousValue == IF Len(values) > 1 THEN values[Len(values) - 1] ELSE currentValue
        IN  << [id |-> column,
                name |-> KpiName(column),
                value |-> RoundTo(currentValue, 2),
                change |-> RoundTo(KpiChange(currentValue, previousValue), 2),
                trend |-> detectTrend(LastValues(values, TrendWindow)),
                unit |-> KpiUnit(column)] >> \o rest

\* The inputs of calculateKPIs: at most MaxKpiRows rows of a sales and a
\* unit_cost cell (a unit_cost may be missing from a row), and the lists of
\* columns asked for.
MaxKpiRows == 3
KpiCells ==
    (Chars["sales"] :> {N(0), N(1), N(3), Num(Rat(1, 8)), Str("x")})
    @@ (Chars["unit_cost"] :> {N(-1), Str("3"), Undefined})
KpiRows ==
    {(Chars["sales"] :> s) @@ (IF c = Undefined THEN <<>> ELSE (Chars["unit_cost"] :> c)) :
        s \in KpiCells[Chars["sales"]], c \in KpiCells[Chars["unit_cost"]]}
KpiColumnLists ==
    {<<>>, <<Chars["sales"]>>, <<Chars["unit_cost"]>>,
     <<Chars["sales"], Chars["unit_cost"]>>, <<Chars["unit_cost"], Chars["sales"]>>}

InitKpi ==
    /\ kpiData \in SeqUpTo(KpiRows, MaxKpiRows)
    /\ kpiColumns \in KpiColumnLists
    /\ kpis = NoResult
    /\ IdleClean /\ IdleQuery /\ IdleForecast /\ IdleAnomaly /\ IdleStats /\ IdleType /\ IdleFill /\ IdleRepeat /\ IdleTranslate /\ IdleTrend /\ IdleRecommend /\ IdleUpload /\ IdleChat /\ IdleAlert

\* A call of calculateKPIs.
CalculateKPIs ==
    /\ kpis = NoResult
    /\ kpis' = [items |-> calculateKPIs(kpiData, kpiColumns)]
    /\ UNCHANGED <<kpiData, kpiColumns, cleanVars, queryVars, forecastVars, anomalyVars, statsVars, typeVars, fillVars, repeatVars, translateVars, trendVars, recommendVars, uploadVars, chatVars, alertVars>>

NextKpi == CalculateKPIs

SpecKpi == InitKpi /\ [][NextKpi]_vars

(***************************************************************************)
(* dataProcessor.ts: generateStatistics.                                   *)
(***************************************************************************)
\* Math.floor of a rational that is not negative.
Floor(x) == x.n \div x.d

\* Math.sqrt(x).toFixed(2): the hundredths n nearest to the square root,
\* (2n - 1)^2 <= 40000 x < (2n + 1)^2.
MaxStdDev == 400
SqrtToFixed2(x) ==
    LET x4 == RMul(Int2Rat(40000), x)
        n == CHOOSE n \in 0..MaxStdDev :
                /\ n = 0 \/ RLeq(Int2Rat((2 * n - 1) * (2 * n - 1)), x4)
                /\ RLess(x4, Int2Rat((2 * n + 1) * (2 * n + 1)))
    IN  [t |-> "fixed", digits |-> 2, scaled |-> n]

\* [...values].sort((a, b) => a - b).
SortAscending(values) ==
    LET rank(v) == Cardinality({w \in Range(values) : RLess(w, v)})
        ordered == [k \in 1..Cardinality(Range(values)) |->
                        CHOOSE v \in Range(values) : rank(v) = k - 1]
    IN  Flatten([k \in DOMAIN ordered |-> SelectSeq(values, LAMBDA v : v = ordered[k])],
                1, Len(ordered))

\* The element of sorted at the index Math.floor(sorted.length * p).
AtRank(sorted, p) == sorted[Floor(RMul(Int2Rat(Len(sorted)), p)) + 1]

RMin(values) == CHOOSE v \in Range(values) : \A w \in Range(values) : RLeq(v, w)
RMaxOf(values) == CHOOSE v \in Range(values) : \A w \in Range(values) : RLeq(w, v)

\* The statistics of the values of one numeric column.
ColumnStatistics(values) ==
    LET sorted == SortAscending(values)
        mean == Mean(values)
    IN  [count |-> Len(values),
         mean |-> ToFixed(mean, 2),
         median |-> ToFixed(AtRank(sorted, Rat(1, 2)), 2),
         std_dev |-> SqrtToFixed2(Variance(values)),
         min |-> RMin(values),
         max |-> RMaxOf(values),
         q1 |-> AtRank(sorted, Rat(1, 4)),
         q3 |-> AtRank(sorted, Rat(3, 4))]

\* Number(row[column.name]) of every row, NaN dropped.
StatValues(data, name) ==
    SelectSeq([i \in DOMAIN data |-> ToNumber(Cell(data[i], name))], LAMBDA v : ~IsNaN(v))

generateStatistics(data, columns) ==
    LET reported == {k \in DOMAIN columns :
                        columns[k].type = "number" /\ Len(StatValues(data, columns[k].name)) > 0}
    IN  [name \in {columns[k].name : k \in reported} |->
            ColumnStatistics(StatValues(data, name))]

\* The inputs of generateStatistics: at most MaxStatRows rows of one cell,
\* and a column list that types the column as a number, as a string, or is
\* empty.
MaxStatRows == 4
StatCells == {N(0), N(1), N(3), Num(Rat(1, 8)), Num(Rat(-1, 250)), Str("x")}
StatRows == [a : StatCells]
StatColumnLists == {<<>>, <<[name |-> "a", type |-> "number"]>>,
                    <<[name |-> "a", type |-> "string"]>>}

InitStats ==
    /\ statsData \in SeqUpTo(StatRows, MaxStatRows)
    /\ statsColumns \in StatColumnLists
    /\ statistics = NoResult
    /\ IdleClean /\ IdleQuery /\ IdleForecast /\ IdleAnomaly /\ IdleKpi /\ IdleType /\ IdleFill /\ IdleRepeat /\ IdleTranslate /\ IdleTrend /\ IdleRecommend /\ IdleUpload /\ IdleChat /\ IdleAlert

\* A call of generateStatistics.
GenerateStatistics ==
    /\ statistics = NoResult
    /\ statistics' = [stats |-> generateStatistics(statsData, statsColumns)]
    /\ UNCHANGED <<statsData, statsColumns, cleanVars, queryVars, forecastVars, anomalyVars, kpiVars, typeVars, fillVars, repeatVars, translateVars, trendVars, recommendVars, uploadVars, chatVars, alertVars>>

NextStats == GenerateStatistics

SpecStats == InitStats /\ [][NextStats]_vars

(***************************************************************************)
(* dataProcessor.ts: detectColumnType on the values of one column.         *)
(***************************************************************************)
MaxTypeValues == 3
TypeCells == {Null, Undefined, Str(""), Str("x"), Str("1"), Str("0"), Str("true"),
              Str("2024-01-01"), Bool(FALSE)}

InitType ==
    /\ typeValues \in SeqUpTo(TypeCells, MaxTypeValues)
    /\ detectedType = NoResult
    /\ IdleClean /\ IdleQuery /\ IdleForecast /\ IdleAnomaly /\ IdleKpi /\ IdleStats /\ IdleFill /\ IdleRepeat /\ IdleTranslate /\ IdleTrend /\ IdleRecommend /\ IdleUpload /\ IdleChat /\ IdleAlert

\* A call of detectColumnType.
DetectColumnType ==
    /\ detectedType = NoResult
    /\ detectedType' = [type |-> detectColumnType(typeValues)]
    /\ UNCHANGED <<typeValues, cleanVars, queryVars, forecastVars, anomalyVars, kpiVars, statsVars, fillVars, repeatVars, translateVars, trendVars, recommendVars, uploadVars, chatVars, alertVars>>

NextType == DetectColumnType

SpecType == InitType /\ [][NextType]_vars

(***************************************************************************)
(* dataProcessor.ts: fillMissingValues on the rows of one column (column b *)
(* is null throughout), with the columns typed as processDataset types     *)
(* them.                                                                   *)
(***************************************************************************)
MaxFillRows == 5
FillCells == {Null, Str("x"), Str("true"), Str("1"), Str("3")}
FillRows == {[a |-> v, b |-> Null] : v \in FillCells}

InitFill ==
    /\ fillData \in SeqUpTo(FillRows, MaxFillRows)
    /\ fillResult = NoResult
    /\ IdleClean /\ IdleQuery /\ IdleForecast /\ IdleAnomaly /\ IdleKpi /\ IdleStats /\ IdleType /\ IdleRepeat /\ IdleTranslate /\ IdleTrend /\ IdleRecommend /\ IdleUpload /\ IdleChat /\ IdleAlert

\* A call of fillMissingValues.
FillMissingValues ==
    /\ fillResult = NoResult
    /\ fillResult' = [rows |-> fillMissingValues(fillData, ColumnsOf(fillData))]
    /\ UNCHANGED <<fillData, cleanVars, queryVars, forecastVars, anomalyVars, kpiVars, statsVars, typeVars, repeatVars, translateVars, trendVars, recommendVars, uploadVars, chatVars, alertVars>>

NextFill == FillMissingValues

SpecFill == InitFill /\ [][NextFill]_vars

(***************************************************************************)
(* voiceService.ts: calculateKPIs, predictTimeSeries and detectAnomalies   *)
(* called twice on the same rows and metric, at two times of the clock.    *)
(***************************************************************************)
\* The rows: every series of at most MaxPoints values 0 and 1, and the longer
\* series of zeros ending in a 1 (an anomaly from 6 points on), all dated day
\* by day or all undated.
MaxRepeatPoints == 6
RepeatPeriods == 2
\* The hours between the two calls: the same hour, the next one, a day later.
Delays == {0, 1, DayHours}
RepeatInputs ==
    LET rows(cells, dated) ==
            [i \in DOMAIN cells |->
                [date |-> IF dated THEN DateOnly(BaseDay + i) ELSE Undefined,
                 rev |-> N(cells[i])]]
        short == UNION {[1..k -> {0, 1}] : k \in 0..MaxPoints}
        spikes == {[i \in 1..k |-> IF i = k THEN 1 ELSE 0] : k \in (MaxPoints + 1)..MaxRepeatPoints}
    IN  {rows(cells, dated) : cells \in short \cup spikes, dated \in BOOLEAN}

\* The analyses of the rows with the clock reading now.
Analyses(data, now, tz) ==
    [at |-> now,
     kpis |-> calculateKPIs([i \in DOMAIN data |-> (Chars["rev"] :> data[i].rev)],
                            <<Chars["rev"]>>),
     prediction |-> predictTimeSeries(data, RepeatPeriods, [now |-> now, tz |-> tz]),
     anomalies |-> detectAnomalies(data, now)]

InitRepeat ==
    /\ repData \in RepeatInputs
    /\ env \in Runtimes
    /\ repFirst = NoResult
    /\ repSecond = NoResult
    /\ tsData = Idle /\ periods = Idle /\ prediction = Idle
    /\ IdleClean /\ IdleQuery /\ IdleAnomaly /\ IdleKpi /\ IdleStats /\ IdleType /\ IdleFill /\ IdleTranslate /\ IdleTrend /\ IdleRecommend /\ IdleUpload /\ IdleChat /\ IdleAlert

\* The first calls.
Analyse ==
    /\ repFirst = NoResult
    /\ repFirst' = Analyses(repData, env.now, env.tz)
    /\ UNCHANGED <<repData, repSecond, cleanVars, queryVars, forecastVars, anomalyVars, kpiVars, statsVars, typeVars, fillVars, translateVars, trendVars, recommendVars, uploadVars, chatVars, alertVars>>

\* The same calls again, some time later.
AnalyseAgain ==
    /\ repFirst # NoResult
    /\ repSecond = NoResult
    /\ \E delay \in Delays : repSecond' = Analyses(repData, env.now + delay, env.tz)
    /\ UNCHANGED <<repData, repFirst, cleanVars, queryVars, forecastVars, anomalyVars, kpiVars, statsVars, typeVars, fillVars, translateVars, trendVars, recommendVars, uploadVars, chatVars, alertVars>>

NextRepeat == Analyse \/ AnalyseAgain

SpecRepeat == InitRepeat /\ [][NextRepeat]_vars

(***************************************************************************)
(* nlqService.ts (both services): translateNLQtoSQL, the call of the       *)
(* collaborator and the heuristic planner it falls back to.                *)
(***************************************************************************)
\* The texts of the planner, of the questions and of the schemas, spelled out.
PlanChars ==
    ("average" :> <<"a", "v", "e", "r", "a", "g", "e">>)
    @@ ("avg" :> <<"a", "v", "g">>)
    @@ ("mean" :> <<"m", "e", "a", "n">>)
    @@ ("sum" :> <<"s", "u", "m">>)
    @@ ("total" :> <<"t", "o", "t", "a", "l">>)
    @@ ("count" :> <<"c", "o", "u", "n", "t">>)
    @@ ("how many" :> <<"h", "o", "w", " ", "m", "a", "n", "y">>)
    @@ ("trend" :> <<"t", "r", "e", "n", "d">>)
    @@ ("over time" :> <<"o", "v", "e", "r", " ", "t", "i", "m", "e">>)
    @@ ("group by" :> <<"g", "r", "o", "u", "p", " ", "b", "y">>)
    @@ ("breakdown" :> <<"b", "r", "e", "a", "k", "d", "o", "w", "n">>)
    @@ ("by category" :> <<"b", "y", " ", "c", "a", "t", "e", "g", "o", "r", "y">>)
    @@ ("top" :> <<"t", "o", "p">>)
    @@ ("highest" :> <<"h", "i", "g", "h", "e", "s", "t">>)
    @@ ("best" :> <<"b", "e", "s", "t">>)
    @@ ("bottom" :> <<"b", "o", "t", "t", "o", "m">>)
    @@ ("lowest" :> <<"l", "o", "w", "e", "s", "t">>)
    @@ ("worst" :> <<"w", "o", "r", "s", "t">>)
    @@ ("SELECT AVG(" :> <<"S", "E", "L", "E", "C", "T", " ", "A", "V", "G", "(">>)
    @@ (") as average_" :> <<")", " ", "a", "s", " ", "a", "v", "e", "r", "a", "g", "e", "_">>)
    @@ (" FROM " :> <<" ", "F", "R", "O", "M", " ">>)
    @@ ("Calculates the average of " :> <<"C", "a", "l", "c", "u", "l", "a", "t", "e", "s", " ", "t", "h", "e", " ", "a", "v", "e", "r", "a", "g", "e", " ", "o", "f", " ">>)
    @@ ("SELECT SUM(" :> <<"S", "E", "L", "E", "C", "T", " ", "S", "U", "M", "(">>)
    @@ (") as total_" :> <<")", " ", "a", "s", " ", "t", "o", "t", "a", "l", "_">>)
    @@ ("Calculates the total sum of " :> <<"C", "a", "l", "c", "u", "l", "a", "t", "e", "s", " ", "t", "h", "e", " ", "t", "o", "t", "a", "l", " ", "s", "u", "m", " ", "o", "f", " ">>)
    @@ ("SELECT COUNT(*) as total_count FROM " :> <<"S", "E", "L", "E", "C", "T", " ", "C", "O", "U", "N", "T", "(", "*", ")", " ", "a", "s", " ", "t", "o", "t", "a", "l", "_", "c", "o", "u", "n", "t", " ", "F", "R", "O", "M", " ">>)
    @@ ("Counts the total number of records" :> <<"C", "o", "u", "n", "t", "s", " ", "t", "h", "e", " ", "t", "o", "t", "a", "l", " ", "n", "u", "m", "b", "e", "r", " ", "o", "f", " ", "r", "e", "c", "o", "r", "d", "s">>)
    @@ ("SELECT " :> <<"S", "E", "L", "E", "C", "T", " ">>)
    @@ (", " :> <<",", " ">>)
    @@ (" ORDER BY " :> <<" ", "O", "R", "D", "E", "R", " ", "B", "Y", " ">>)
    @@ (" LIMIT 1000" :> <<" ", "L", "I", "M", "I", "T", " ", "1", "0", "0", "0">>)
    @@ ("Shows trends of " :> <<"S", "h", "o", "w", "s", " ", "t", "r", "e", "n", "d", "s", " ", "o", "f", " ">>)
    @@ (" over " :> <<" ", "o", "v", "e", "r", " ">>)
    @@ (", SUM(" :> <<",", " ", "S", "U", "M", "(">>)
    @@ (") as total FROM " :> <<")", " ", "a", "s", " ", "t", "o", "t", "a", "l", " ", "F", "R", "O", "M", " ">>)
    @@ (" GROUP BY " :> <<" ", "G", "R", "O", "U", "P", " ", "B", "Y", " ">>)
    @@ (" LIMIT 20" :> <<" ", "L", "I", "M", "I", "T", " ", "2", "0">>)
    @@ ("Groups data by " :> <<"G", "r", "o", "u", "p", "s", " ", "d", "a", "t", "a", " ", "b", "y", " ">>)
    @@ (" and shows totals" :> <<" ", "a", "n", "d", " ", "s", "h", "o", "w", "s", " ", "t", "o", "t", "a", "l", "s">>)
    @@ ("SELECT * FROM " :> <<"S", "E", "L", "E", "C", "T", " ", "*", " ", "F", "R", "O", "M", " ">>)
    @@ (" DESC LIMIT 10" :> <<" ", "D", "E", "S", "C", " ", "L", "I", "M", "I", "T", " ", "1", "0">>)
    @@ ("Shows top 10 records by " :> <<"S", "h", "o", "w", "s", " ", "t", "o", "p", " ", "1", "0", " ", "r", "e", "c", "o", "r", "d", "s", " ", "b", "y", " ">>)
    @@ (" ASC LIMIT 10" :> <<" ", "A", "S", "C", " ", "L", "I", "M", "I", "T", " ", "1", "0">>)
    @@ ("Shows bottom 10 records by " :> <<"S", "h", "o", "w", "s", " ", "b", "o", "t", "t", "o", "m", " ", "1", "0", " ", "r", "e", "c", "o", "r", "d", "s", " ", "b", "y", " ">>)
    @@ (" LIMIT 100" :> <<" ", "L", "I", "M", "I", "T", " ", "1", "0", "0">>)
    @@ ("Shows a sample of the data" :> <<"S", "h", "o", "w", "s", " ", "a", " ", "s", "a", "m", "p", "l", "e", " ", "o", "f", " ", "t", "h", "e", " ", "d", "a", "t", "a">>)
    @@ ("data" :> <<"d", "a", "t", "a">>)
    @@ ("revenue" :> <<"r", "e", "v", "e", "n", "u", "e">>)
    @@ ("Average rev" :> <<"A", "v", "e", "r", "a", "g", "e", " ", "r", "e", "v">>)
    @@ ("mean count" :> <<"m", "e", "a", "n", " ", "c", "o", "u", "n", "t">>)
    @@ ("Total" :> <<"T", "o", "t", "a", "l">>)
    @@ ("How many" :> <<"H", "o", "w", " ", "m", "a", "n", "y">>)
    @@ ("show" :> <<"s", "h", "o", "w">>)
    @@ ("" :> <<>>)
    @@ ("rev" :> <<"r", "e", "v">>)
    @@ ("Revenue" :> <<"R", "e", "v", "e", "n", "u", "e">>)
    @@ ("day" :> <<"d", "a", "y">>)
    @@ ("name" :> <<"n", "a", "m", "e">>)
    @@ ("SELECT 1" :> <<"S", "E", "L", "E", "C", "T", " ", "1">>)
    @@ ("one" :> <<"o", "n", "e">>)
Text(s) == PlanChars[s]

\* An exception thrown by a call.
Threw == [t |-> "threw"]

\* columns.filter(c => c.type === type).map(c => c.name)
NamesOfType(columns, type) ==
    LET selected == SelectSeq(columns, LAMBDA c : c.type = type)
    IN  [i \in DOMAIN selected |-> selected[i].name]

\* names[i] of JavaScript, from 0; the empty text stands for undefined, which
\* is falsy as the empty text is.
NameAt(names, i) == IF i + 1 \in DOMAIN names THEN names[i + 1] ELSE <<>>

\* a || b || ... || columns[0].name: the first truthy candidate, else the name
\* of the first column, a TypeError when there is no column.
OrFirstColumn(candidates, columns) ==
    LET truthy == {i \in DOMAIN candidates : candidates[i] # <<>>}
    IN  IF truthy # {}
        THEN [ok |-> TRUE, name |-> candidates[CHOOSE i \in truthy : \A j \in truthy : i <= j]]
        ELSE IF columns = <<>> THEN [ok |-> FALSE]
        ELSE [ok |-> TRUE, name |-> columns[1].name]

NLQPlan(sqlText, explanation, visualization_type) ==
    [t |-> "plan", sql |-> sqlText, explanation |-> explanation,
     confidence |-> Num(Rat(4, 5)), visualization_type |-> visualization_type]

\* simulateNLQResponse of the client service.
simulateNLQResponse(query, columns, tableName) ==
    LET lowerQuery == ToLowerCase(query)
        has(word) == Includes(lowerQuery, Text(word))
        numericColumns == NamesOfType(columns, "number")
        dateColumns == NamesOfType(columns, "date")
        column == OrFirstColumn(<<NameAt(numericColumns, 0)>>, columns)
        dateCol == OrFirstColumn(<<NameAt(dateColumns, 0)>>, columns)
        valueCol == OrFirstColumn(<<NameAt(numericColumns, 0), NameAt([i \in DOMAIN columns |-> columns[i].name], 1)>>, columns)
        groupCol == OrFirstColumn(<<NameAt(NamesOfType(columns, "string"), 0)>>, columns)
    IN  IF has("average") \/ has("avg") \/ has("mean")
        THEN IF ~column.ok THEN Threw
             ELSE NLQPlan(Text("SELECT AVG(") \o column.name \o Text(") as average_") \o column.name \o Text(" FROM ") \o tableName,
                          Text("Calculates the average of ") \o column.name, "table")
        ELSE IF has("sum") \/ has("total")
        THEN IF ~column.ok THEN Threw
             ELSE NLQPlan(Text("SELECT SUM(") \o column.name \o Text(") as total_") \o column.name \o Text(" FROM ") \o tableName,
                          Text("Calculates the total sum of ") \o column.name, "table")
        ELSE IF has("count") \/ has("how many")
        THEN NLQPlan(Text("SELECT COUNT(*) as total_count FROM ") \o tableName,
                     Text("Counts the total number of records"), "table")
        ELSE IF has("trend") \/ has("over time")
        THEN IF ~dateCol.ok \/ ~valueCol.ok THEN Threw
             ELSE NLQPlan(Text("SELECT ") \o dateCol.name \o Text(", ") \o valueCol.name \o Text(" FROM ") \o tableName
                              \o Text(" ORDER BY ") \o dateCol.name \o Text(" LIMIT 1000"),
                          Text("Shows trends of ") \o valueCol.name \o Text(" over ") \o dateCol.name, "line")
        ELSE IF has("group by") \/ has("breakdown") \/ has("by category")
        THEN IF ~groupCol.ok \/ ~valueCol.ok THEN Threw
             ELSE NLQPlan(Text("SELECT ") \o groupCol.name \o Text(", SUM(") \o valueCol.name \o Text(") as total FROM ") \o tableName
                              \o Text(" GROUP BY ") \o groupCol.name \o Text(" LIMIT 20"),
                          Text("Groups data by ") \o groupCol.name \o Text(" and shows totals"), "bar")
        ELSE IF has("top") \/ has("highest") \/ has("best")
        THEN IF ~column.ok THEN Threw
             ELSE NLQPlan(Text("SELECT * FROM ") \o tableName \o Text(" ORDER BY ") \o column.name \o Text(" DESC LIMIT 10"),
                          Text("Shows top 10 records by ") \o column.name, "bar")
        ELSE IF has("bottom") \/ has("lowest") \/ has("worst")
        THEN IF ~column.ok THEN Threw
             ELSE NLQPlan(Text("SELECT * FROM ") \o tableName \o Text(" ORDER BY ") \o column.name \o Text(" ASC LIMIT 10"),
                          Text("Shows bottom 10 records by ") \o column.name, "bar")
        ELSE NLQPlan(Text("SELECT * FROM ") \o tableName \o Text(" LIMIT 100"),
                     Text("Shows a sample of the data"), "table")

\* simulateNLQResponse of the backend service: fewer shapes, and always the
\* bar chart.
backendSimulateNLQResponse(query, columns, tableName) ==
    LET lowerQuery == ToLowerCase(query)
        has(word) == Includes(lowerQuery, Text(word))
        numericColumns == NamesOfType(columns, "number")
        column == OrFirstColumn(<<NameAt(numericColumns, 0)>>, columns)
        dateCol == OrFirstColumn(<<NameAt(NamesOfType(columns, "date"), 0)>>, columns)
        revenue == SelectSeq(columns, LAMBDA c : Includes(ToLowerCase(c.name), Text("revenue")) /\ c.type = "number")
        valueCol == OrFirstColumn(<<NameAt([i \in DOMAIN revenue |-> revenue[i].name], 0),
                                    NameAt(numericColumns, 0),
                                    NameAt([i \in DOMAIN columns |-> columns[i].name], 1)>>, columns)
    IN  IF has("average") \/ has("avg") \/ has("mean")
        THEN IF ~column.ok THEN Threw
             ELSE NLQPlan(Text("SELECT AVG(") \o column.name \o Text(") as average_") \o column.name \o Text(" FROM ") \o tableName,
                          Text("Calculates the average of ") \o column.name, "bar")
        ELSE IF has("sum") \/ has("total")
        THEN IF ~column.ok THEN Threw
             ELSE NLQPlan(Text("SELECT SUM(") \o column.name \o Text(") as total_") \o column.name \o Text(" FROM ") \o tableName,
                          Text("Calculates the total sum of ") \o column.name, "bar")
        ELSE IF has("count") \/ has("how many")
        THEN NLQPlan(Text("SELECT COUNT(*) as total_count FROM ") \o tableName,
                     Text("Counts the total number of records"), "bar")
        ELSE IF has("trend") \/ has("over time")
        THEN IF ~dateCol.ok \/ ~valueCol.ok THEN Threw
             ELSE NLQPlan(Text("SELECT ") \o dateCol.name \o Text(", ") \o valueCol.name \o Text(" FROM ") \o tableName
                              \o Text(" ORDER BY ") \o dateCol.name \o Text(" LIMIT 1000"),
                          Text("Shows trends of ") \o valueCol.name \o Text(" over ") \o dateCol.name, "bar")
        ELSE NLQPlan(Text("SELECT * FROM ") \o tableName \o Text(" LIMIT 100"),
                     Text("Shows a sample of the data"), "bar")

\* The planner of the service.
Simulate(service, query, columns) ==
    IF service = "client" THEN simulateNLQResponse(query, columns, Text("data"))
    ELSE backendSimulateNLQResponse(query, columns, Text("data"))

\* How the promise of translateNLQtoSQL settles.
Resolved(value) == [t |-> "resolved", value |-> value]
Rejected == [t |-> "rejected"]

\* A variant whose handler throws the error again.
Caught_rethrow(service, query, columns) == Rejected

\* The catch block: the result of the planner; an exception of the planner
\* leaves the async function and rejects the promise.
Caught(service, query, columns) ==
    LET plan == Simulate(service, query, columns)
    IN  IF plan = Threw THEN Rejected ELSE Resolved(plan)

\* The texts a collaborator may send and JSON.parse of each: a value, or a
\* SyntaxError.
CollaboratorPlan ==
    [t |-> "plan", sql |-> Text("SELECT 1"), explanation |-> Text("one"),
     confidence |-> Num(Rat(19, 20)), visualization_type |-> "pie"]
JsonTexts == {"{", "null", "{\"sql\": \"SELECT 1\", ...}"}
JSONParse(text) ==
    CASE text = "null" -> [ok |-> TRUE, value |-> Null]
      [] text = "{\"sql\": \"SELECT 1\", ...}" -> [ok |-> TRUE, value |-> CollaboratorPlan]
      [] OTHER -> [ok |-> FALSE]

\* What fetch settles with: a network error, or a response with its status.
FetchOutcomes == {[t |-> "network error"], [t |-> "response", ok |-> FALSE], [t |-> "response", ok |-> TRUE]}

\* What response.json() settles with: a rejection for a body that is not
\* JSON, else the value.  The client service reads the text
\* data.choices[0].message.content of it; the backend service returns it.
NotJson == [json |-> FALSE]
Bodies(service) ==
    {NotJson} \cup
    IF service = "client"
    THEN {[json |-> TRUE, data |-> [choices |-> c]] :
              c \in {<<>>} \cup {<<[message |-> [content |-> s]]>> : s \in JsonTexts}}
    ELSE {[json |-> TRUE, data |-> v] : v \in {CollaboratorPlan, Null}}

\* The schemas and the questions.
MaxColumns == 2
SchemaColumns ==
    {[name |-> Text("rev"), type |-> "number"], [name |-> Text("Revenue"), type |-> "number"],
     [name |-> Text("day"), type |-> "date"], [name |-> Text("name"), type |-> "string"]}
Questions ==
    {"Average rev", "avg", "mean count", "sum", "Total", "count", "How many", "trend", "over time",
     "group by", "breakdown", "by category", "top", "highest", "best", "bottom", "lowest", "worst",
     "show", ""}

InitTranslate ==
    /\ nlqQuery \in {Text(q) : q \in Questions}
    /\ nlqColumns \in SeqUpTo(SchemaColumns, MaxColumns)
    /\ variant \in {"client", "backend"}
    /\ apiKey \in IF variant = "client" THEN BOOLEAN ELSE {FALSE}
    /\ pc = "called"
    /\ requests = 0
    /\ response = NoResult
    /\ translation = NoResult
    /\ IdleClean /\ IdleQuery /\ IdleForecast /\ IdleAnomaly /\ IdleKpi /\ IdleStats /\ IdleType /\ IdleFill /\ IdleRepeat /\ IdleTrend /\ IdleRecommend /\ IdleUpload /\ IdleChat /\ IdleAlert

\* The call up to its first await: without a key the client service returns
\* the plan of the planner from inside the try block, so that an exception of
\* the planner reaches the catch block, which calls the planner again; else
\* the request is sent.
Call ==
    /\ pc = "called"
    /\ IF variant = "client" /\ ~apiKey
       THEN /\ translation' = Caught(variant, nlqQuery, nlqColumns)
            /\ pc' = "settled"
            /\ UNCHANGED requests
       ELSE /\ requests' = requests + 1
            /\ pc' = "fetch"
            /\ UNCHANGED translation
    /\ UNCHANGED <<nlqQuery, nlqColumns, variant, apiKey, response, cleanVars, queryVars, forecastVars, anomalyVars, kpiVars, statsVars, typeVars, fillVars, repeatVars, trendVars, recommendVars, uploadVars, chatVars, alertVars>>

\* fetch settles: a rejection and a response that is not ok reach the catch
\* block; else the body is read.
FetchSettles ==
    /\ pc = "fetch"
    /\ \E outcome \in FetchOutcomes :
        /\ response' = outcome
        /\ IF outcome.t = "network error" \/ ~outcome.ok
           THEN /\ translation' = Caught(variant, nlqQuery, nlqColumns)
                /\ pc' = "settled"
           ELSE /\ pc' = "json"
                /\ UNCHANGED translation
    /\ UNCHANGED <<nlqQuery, nlqColumns, variant, apiKey, requests, cleanVars, queryVars, forecastVars, anomalyVars, kpiVars, statsVars, typeVars, fillVars, repeatVars, trendVars, recommendVars, uploadVars, chatVars, alertVars>>

\* response.json() settles.  The client service parses the content of the
\* first choice, a TypeError when there is none.
BodySettles ==
    /\ pc = "json"
    /\ \E body \in Bodies(variant) :
        /\ response' = [t |-> "response", ok |-> TRUE, body |-> body]
        /\ translation' =
            IF ~body.json THEN Caught(variant, nlqQuery, nlqColumns)
            ELSE IF variant = "backend" THEN Resolved(body.data)
            ELSE IF body.data.choices = <<>> THEN Caught(variant, nlqQuery, nlqColumns)
            ELSE LET result == JSONParse(body.data.choices[1].message.content)
                 IN  IF result.ok THEN Resolved(result.value)
                     ELSE Caught(variant, nlqQuery, nlqColumns)
    /\ pc' = "settled"
    /\ UNCHANGED <<nlqQuery, nlqColumns, variant, apiKey, requests, cleanVars, queryVars, forecastVars, anomalyVars, kpiVars, statsVars, typeVars, fillVars, repeatVars, trendVars, recommendVars, uploadVars, chatVars, alertVars>>

NextTranslate == Call \/ FetchSettles \/ BodySettles

SpecTranslate == InitTranslate /\ [][NextTranslate]_vars

(***************************************************************************)
(* voiceService.ts: detectTrend called on its own.                         *)
(***************************************************************************)
\* The series: at most MaxTrendValues whole numbers of either sign.
MaxTrendValues == 4
TrendCells == {-3, -1, 0, 1, 3}

InitTrend ==
    /\ trendValues \in {[i \in DOMAIN cells |-> Int2Rat(cells[i])] : cells \in SeqUpTo(TrendCells, MaxTrendValues)}
    /\ trend = NoResult
    /\ IdleClean /\ IdleQuery /\ IdleForecast /\ IdleAnomaly /\ IdleKpi /\ IdleStats /\ IdleType /\ IdleFill /\ IdleRepeat /\ IdleTranslate /\ IdleRecommend /\ IdleUpload /\ IdleChat /\ IdleAlert

\* A call of detectTrend.
DetectTrend ==
    /\ trend = NoResult
    /\ trend' = [direction |-> detectTrend(trendValues)]
    /\ UNCHANGED <<trendValues, cleanVars, queryVars, forecastVars, anomalyVars, kpiVars, statsVars, typeVars, fillVars, repeatVars, translateVars, recommendVars, uploadVars, chatVars, alertVars>>

NextTrend == DetectTrend

SpecTrend == InitTrend /\ [][NextTrend]_vars

(***************************************************************************)
(* voiceService.ts: generateRecommendations.  A message is the record of   *)
(* its template and of the texts put into it.                              *)
(***************************************************************************)
\* anomalies.filter(a => a.severity === severity).length
SeverityCount(anomalyList, severity) ==
    Len(SelectSeq(anomalyList, LAMBDA a : a.severity = severity))

\* ((last - first) / first) * 100 in the arithmetic of JavaScript.
PercentChange(firstValue, lastValue) ==
    LET ratio == JsDiv(RSub(lastValue, firstValue), firstValue)
    IN  IF IsNaN(ratio) \/ ~IsFinite(ratio) THEN ratio ELSE RMul(ratio, Int2Rat(100))

\* x > y and x < y of JavaScript for a finite y: false for NaN.
JsGreater(x, y) ==
    IF IsNaN(x) THEN FALSE ELSE IF ~IsFinite(x) THEN x.inf > 0 ELSE RLess(y, x)
JsLess(x, y) ==
    IF IsNaN(x) THEN FALSE ELSE IF ~IsFinite(x) THEN x.inf < 0 ELSE RLess(x, y)

\* Math.abs(x).toFixed(1)
AbsToFixed1(x) ==
    IF IsNaN(x) THEN [t |-> "str", s |-> "NaN"]
    ELSE IF ~IsFinite(x) THEN [t |-> "str", s |-> "Infinity"]
    ELSE ToFixed(RAbs(x), 1)

\* A number as a condition: 0 and NaN are falsy, and so is undefined.
Truthy(x) == ~IsNaN(x) /\ (IsFinite(x) => x.n # 0)

\* The message about the high-severity anomalies, if any.
CriticalMessages(anomalyList) ==
    LET highAnomalies == SeverityCount(anomalyList, "high")
    IN  IF highAnomalies > 0 THEN <<[kind |-> "Critical", count |-> highAnomalies]>> ELSE <<>>

\* The message about the change from the first to the last prediction.
ForecastMessages(predictions) ==
    IF Len(predictions.predictions) > 0
    THEN LET lastPrediction == predictions.predictions[Len(predictions.predictions)]
             firstPrediction == predictions.predictions[1]
             percentChange == PercentChange(firstPrediction.value, lastPrediction.value)
         IN  IF JsGreater(percentChange, Int2Rat(20))
             THEN <<[kind |-> "Opportunity", metric |-> predictions.metric,
                     percent |-> IF IsFinite(percentChange) THEN ToFixed(percentChange, 1)
                                 ELSE [t |-> "str", s |-> "Infinity"]]>>
             ELSE IF JsLess(percentChange, Int2Rat(-20))
             THEN <<[kind |-> "Warning", metric |-> predictions.metric,
                     percent |-> AbsToFixed1(percentChange)]>>
             ELSE <<>>
    ELSE <<>>

\* The message about the medium-severity anomalies.
MonitorMessages(anomalyList) ==
    LET mediumAnomalies == SeverityCount(anomalyList, "medium")
    IN  IF mediumAnomalies > 2 THEN <<[kind |-> "Monitor", count |-> mediumAnomalies]>> ELSE <<>>

\* The note about the accuracy: predictions.accuracy_score && ... < 0.6.
AccuracyMessages(predictions) ==
    IF /\ "accuracy_score" \in DOMAIN predictions
       /\ Truthy(predictions.accuracy_score)
       /\ JsLess(predictions.accuracy_score, Rat(3, 5))
    THEN <<[kind |-> "Note"]>>
    ELSE <<>>

AllNormal == [kind |-> "All metrics within normal ranges"]

generateRecommendations(anomalyList, predictions) ==
    LET pushed == CriticalMessages(anomalyList) \o ForecastMessages(predictions)
                  \o MonitorMessages(anomalyList) \o AccuracyMessages(predictions)
    IN  IF Len(pushed) = 0 THEN <<AllNormal>> ELSE pushed

\* The inputs: at most MaxRecAnomalies anomalies of any severity, at most
\* MaxRecPredictions predicted values, and an accuracy score or none.
MaxRecAnomalies == 4
MaxRecPredictions == 2
RecAnomalyLists ==
    {[i \in DOMAIN s |-> [severity |-> s[i], is_anomaly |-> TRUE]] :
        s \in SeqUpTo({"low", "medium", "high"}, MaxRecAnomalies)}
RecScores == {Int2Rat(0), Rat(1, 2), Rat(599, 1000), Rat(3, 5), Int2Rat(1), NaN}
RecPredictions ==
    LET lists == {[i \in DOMAIN v |-> [value |-> Int2Rat(v[i])]] : v \in SeqUpTo({0, 1, 2}, MaxRecPredictions)}
    IN  {[metric |-> "rev", predictions |-> p, model_type |-> "insufficient_data"] : p \in lists}
        \cup {[metric |-> "rev", predictions |-> p, accuracy_score |-> a,
               model_type |-> "linear_regression_with_exponential_smoothing"] : p \in lists, a \in RecScores}

InitRecommend ==
    /\ recAnomalies \in RecAnomalyLists
    /\ recPrediction \in RecPredictions
    /\ recommendations = NoResult
    /\ IdleClean /\ IdleQuery /\ IdleForecast /\ IdleAnomaly /\ IdleKpi /\ IdleStats /\ IdleType /\ IdleFill /\ IdleRepeat /\ IdleTranslate /\ IdleTrend /\ IdleUpload /\ IdleChat /\ IdleAlert

\* A call of generateRecommendations.
GenerateRecommendations ==
    /\ recommendations = NoResult
    /\ recommendations' = [messages |-> generateRecommendations(recAnomalies, recPrediction)]
    /\ UNCHANGED <<recAnomalies, recPrediction, cleanVars, queryVars, forecastVars, anomalyVars, kpiVars, statsVars, typeVars, fillVars, repeatVars, translateVars, trendVars, uploadVars, chatVars, alertVars>>

NextRecommend == GenerateRecommendations

SpecRecommend == InitRecommend /\ [][NextRecommend]_vars

(***************************************************************************)
(* dataProcessor.ts parseCSV and DatasetSelector.tsx DataUpload.handleFile.*)
(* The texts are sequences of characters.  The calls of handleFile may     *)
(* overlap: the drop zone stays active while a file is being read.         *)
(***************************************************************************)
\* text.split(sep) for a separator of one character.
SplitOn(text, sep) ==
    LET found == SelectSeq([i \in DOMAIN text |-> i], LAMBDA i : text[i] = sep)
        cuts == <<0>> \o found \o <<Len(text) + 1>>
    IN  [k \in 1..(Len(cuts) - 1) |-> SubSeq(text, cuts[k] + 1, cuts[k + 1] - 1)]

\* String.prototype.trim.
WhiteSpace == {" ", "\t", "\r", "\n"}
RECURSIVE Trim(_)
Trim(text) ==
    IF text = <<>> THEN text
    ELSE IF Head(text) \in WhiteSpace THEN Trim(Tail(text))
    ELSE IF text[Len(text)] \in WhiteSpace THEN Trim(SubSeq(text, 1, Len(text) - 1))
    ELSE text

\* text.replace(/^"|"$/g, ''): a quote at the start and a quote at the end
\* are removed.
StripQuotes(text) ==
    LET opened == IF text # <<>> /\ Head(text) = "\"" THEN Tail(text) ELSE text
    IN  IF opened # <<>> /\ opened[Len(opened)] = "\""
        THEN SubSeq(opened, 1, Len(opened) - 1) ELSE opened

\* line.split(',').map(v => v.trim().replace(/^"|"$/g, ''))
Fields(line) ==
    LET parts == SplitOn(line, ",")
    IN  [i \in DOMAIN parts |-> StripQuotes(Trim(parts[i]))]

\* parseCSV: the rows of the lines after the header line; a row maps each
\* header to values[index] || null (the last index of a repeated header).
parseCSV(content) ==
    LET lines == SelectSeq(SplitOn(content, "\n"), LAMBDA line : Trim(line) # <<>>)
    IN  IF Len(lines) = 0 THEN <<>>
        ELSE
        LET headers == Fields(lines[1])
            RowOf(values) ==
                [h \in Range(headers) |->
                    LET index == CHOOSE i \in DOMAIN headers :
                                    headers[i] = h /\ \A j \in DOMAIN headers : headers[j] = h => j <= i
                    IN  IF index \in DOMAIN values /\ values[index] # <<>>
                        THEN [t |-> "str", s |-> values[index]] ELSE Null]
        IN  [i \in 1..(Len(lines) - 1) |-> RowOf(Fields(lines[i + 1]))]

\* file.name.endsWith('.csv')
EndsWith(text, suffix) ==
    Len(text) >= Len(suffix) /\ OccursAt(text, Len(text) - Len(suffix), suffix)

\* file.name.replace('.csv', ''): without the first occurrence.
WithoutFirst(text, pat) ==
    IF Includes(text, pat)
    THEN LET at == CHOOSE i \in 0..Len(text) :
                      OccursAt(text, i, pat) /\ \A j \in 0..(i - 1) : ~OccursAt(text, j, pat)
         IN  SubSeq(text, 1, at) \o SubSeq(text, at + Len(pat) + 1, Len(text))
    ELSE text

DotCsv == <<".", "c", "s", "v">>

\* processed.rows.length: processDataset keeps the first of the rows of equal
\* content (removeDuplicates) and fills the nulls in.
ProcessedRowCount(parsed) == Cardinality(Range(parsed))

\* A variant where a setItem that throws has written the key all the same.
StorageAfterSetItem_written(keys, id, stored) == keys \cup {id}

\* localStorage.setItem(`dataset_${id}`, ...): the key is written, or the
\* call throws for lack of space and the storage stays as it was.
StorageAfterSetItem(keys, id, stored) == IF stored THEN keys \cup {id} ELSE keys

\* The files: names with and without the extension, and contents without
\* data rows (empty, blank lines, a header alone) and with data rows.
FileNames ==
    {<<"d", ".", "c", "s", "v">>, <<"d", ".", "t", "x", "t">>, <<"d", ".", "C", "S", "V">>,
     <<"a", ".", "c", "s", "v", ".", "c", "s", "v">>}
FileContents ==
    {<<>>, <<" ", "\n", "\n">>, <<"a", ",", "b", "\n">>,
     <<"a", "\n", "1">>, <<"a", ",", "b", "\n", "1", ",", "\n", "1", ",">>,
     <<"\"", "a", "\"", "\n", " ", "x", " ", "\n", "\n", "y">>}
Files == [name : FileNames, content : FileContents]

\* The calls of handleFile and the ids Math.random() may give.
MaxUploads == 2
Calls == 1..MaxUploads
DatasetIds == {"id1", "id2"}
NoFile == [t |-> "none"]

InitUpload ==
    /\ uploads = [c \in Calls |-> [pc |-> "not called", file |-> NoFile]]
    /\ datasets = <<>>
    /\ storage = {}
    /\ isProcessing = FALSE
    /\ uploadError = Null
    /\ success = Null
    /\ timers = 0
    /\ IdleClean /\ IdleQuery /\ IdleForecast /\ IdleAnomaly /\ IdleKpi /\ IdleStats /\ IdleType /\ IdleFill /\ IdleRepeat /\ IdleTranslate /\ IdleTrend /\ IdleRecommend /\ IdleChat /\ IdleAlert

\* handleFile up to its await: a name without .csv sets the error and
\* returns; else the states are reset and the text of the file is read.
HandleFile(c) ==
    /\ uploads[c].pc = "not called"
    /\ \E file \in Files :
        IF ~EndsWith(file.name, DotCsv)
        THEN /\ uploadError' = Str("Only CSV files are supported")
             /\ uploads' = [uploads EXCEPT ![c] = [pc |-> "failed", file |-> file]]
             /\ UNCHANGED <<isProcessing, success>>
        ELSE /\ isProcessing' = TRUE
             /\ uploadError' = Null
             /\ success' = Null
             /\ uploads' = [uploads EXCEPT ![c] = [pc |-> "reading", file |-> file]]
    /\ UNCHANGED <<datasets, storage, timers, cleanVars, queryVars, forecastVars, anomalyVars, kpiVars, statsVars, typeVars, fillVars, repeatVars, translateVars, trendVars, recommendVars, chatVars, alertVars>>

\* file.text() settles and the rest of handleFile runs: the text may fail to
\* be read, the rows may be none, localStorage.setItem may throw for lack of
\* space; else the rows are stored, the dataset is added and the success
\* message is set for 5 seconds.  finally sets isProcessing to false.
TextSettles(c) ==
    /\ uploads[c].pc = "reading"
    /\ \E read \in BOOLEAN, stored \in BOOLEAN, id \in DatasetIds :
        LET file == uploads[c].file
            parsed == parseCSV(file.content)
        IN  IF ~read
            THEN /\ uploadError' = Str("The file could not be read")
                 /\ uploads' = [uploads EXCEPT ![c].pc = "failed"]
                 /\ UNCHANGED <<datasets, storage, success, timers>>
            ELSE IF Len(parsed) = 0
            THEN /\ uploadError' = Str("No data found in file")
                 /\ uploads' = [uploads EXCEPT ![c].pc = "failed"]
                 /\ UNCHANGED <<datasets, storage, success, timers>>
            ELSE IF ~stored
            THEN /\ uploadError' = Str("The quota has been exceeded")
                 /\ storage' = StorageAfterSetItem(storage, id, stored)
                 /\ uploads' = [uploads EXCEPT ![c].pc = "failed"]
                 /\ UNCHANGED <<datasets, success, timers>>
            ELSE /\ storage' = StorageAfterSetItem(storage, id, stored)
                 /\ datasets' = Append(datasets,
                        [id |-> id, name |-> WithoutFirst(file.name, DotCsv), file_name |-> file.name,
                         row_count |-> ProcessedRowCount(parsed), status |-> "ready"])
                 /\ success' = [t |-> "uploaded", file_name |-> file.name, rows |-> ProcessedRowCount(parsed)]
                 /\ timers' = timers + 1
                 /\ uploads' = [uploads EXCEPT ![c].pc = "uploaded"]
                 /\ UNCHANGED uploadError
    /\ isProcessing' = FALSE
    /\ UNCHANGED <<cleanVars, queryVars, forecastVars, anomalyVars, kpiVars, statsVars, typeVars, fillVars, repeatVars, translateVars, trendVars, recommendVars, chatVars, alertVars>>

\* setTimeout(() => setSuccess(null), 5000) fires.
ClearSuccess ==
    /\ timers > 0
    /\ timers' = timers - 1
    /\ success' = Null
    /\ UNCHANGED <<uploads, datasets, storage, isProcessing, uploadError, cleanVars, queryVars, forecastVars, anomalyVars, kpiVars, statsVars, typeVars, fillVars, repeatVars, translateVars, trendVars, recommendVars, chatVars, alertVars>>

NextUpload == (\E c \in Calls : HandleFile(c) \/ TextSettles(c)) \/ ClearSuccess

SpecUpload == InitUpload /\ [][NextUpload]_vars

(***************************************************************************)
(* LoginForm.tsx: ChatInterface.handleSubmit.                              *)
(***************************************************************************)
\* The messages of the chat: the greeting of the initial state, the
\* question the user typed, and the three replies of the assistant.
Greeting == [type |-> "assistant", content |-> [fixed |-> "Hello! I can help you analyze your business data. Ask me questions in plain English."]]
UploadFirst ==
    [type |-> "assistant",
     content |-> [fixed |-> "Please upload a dataset first before asking questions."]]
ErrorReply ==
    [type |-> "assistant",
     content |-> [fixed |-> "Sorry, I encountered an error processing your query. Please try rephrasing your question."]]
AnswerReply(explanation, insight) ==
    [type |-> "assistant", content |-> [explanation |-> explanation, insight |-> insight]]
UserMessage(text) == [type |-> "user", content |-> [typed |-> text]]

\* The payload stored under dataset_<id>: the rows, nothing (getItem gives
\* null and '[]' is parsed), a text that is not JSON, or the JSON text null.
Payloads == {"rows", "absent", "corrupt", "null"}
\* JSON.parse(localStorage.getItem(...) || '[]')
ParseThrows(payload) == payload = "corrupt"
DatasetRows(payload) == IF payload = "null" THEN "null" ELSE "array"

\* What await translateNLQtoSQL(...) gives: a plan, the null a collaborator
\* answered with, or a rejection (the planner of the fallback threw).
Translations == {[t |-> "plan", explanation |-> "explained"], [t |-> "null"], [t |-> "rejected"]}
\* nlqResult.sql throws for a null result; executeQuery throws when the rows
\* are not an array (its catch block reads data.slice again).
ExecuteThrows(nlqResult, rowsKind) == nlqResult.t # "plan" \/ rowsKind # "array"

\* generateInsightSummary resolves with the insight of the collaborator or
\* with its fixed text.
Insights == {"insight", "Analysis: Found records matching your query."}

\* A variant where the finally block leaves isLoading set.
IsLoadingAfterFinally_kept == TRUE

\* finally { setIsLoading(false) }
IsLoadingAfterFinally == FALSE

NoCall == [pc |-> "idle"]

\* The bounds of the chat: the submit events, the texts of the input.
MaxSubmits == 3
ChatInputs == {<<>>, <<" ">>, <<" ", "q">>}
ChatDatasets == {Null} \cup {[payload |-> p] : p \in Payloads}

InitChat ==
    /\ messages = <<Greeting>>
    /\ chatInput = <<>>
    /\ isLoading = FALSE
    /\ currentDataset \in ChatDatasets
    /\ chatCall = NoCall
    /\ submitted = 0
    /\ IdleClean /\ IdleQuery /\ IdleForecast /\ IdleAnomaly /\ IdleKpi /\ IdleStats /\ IdleType /\ IdleFill /\ IdleRepeat /\ IdleTranslate /\ IdleTrend /\ IdleRecommend /\ IdleUpload /\ IdleAlert

\* The input changes: the user types (the field is disabled while loading)
\* or the voice recognition delivers a transcript.
SetInput(text) ==
    /\ chatInput # text
    /\ chatInput' = text
    /\ UNCHANGED <<messages, isLoading, currentDataset, chatCall, submitted, cleanVars, queryVars, forecastVars, anomalyVars, kpiVars, statsVars, typeVars, fillVars, repeatVars, translateVars, trendVars, recommendVars, uploadVars, alertVars>>

\* The data context selects another dataset, or none.
SetCurrentDataset(d) ==
    /\ currentDataset # d
    /\ currentDataset' = d
    /\ UNCHANGED <<messages, chatInput, isLoading, chatCall, submitted, cleanVars, queryVars, forecastVars, anomalyVars, kpiVars, statsVars, typeVars, fillVars, repeatVars, translateVars, trendVars, recommendVars, uploadVars, alertVars>>

\* handleSubmit, up to its first await.
HandleSubmit ==
    /\ submitted < MaxSubmits
    /\ submitted' = submitted + 1
    /\ IF Trim(chatInput) = <<>> \/ isLoading
       THEN UNCHANGED <<messages, chatInput, isLoading, chatCall>>
       ELSE IF currentDataset = Null
       THEN /\ messages' = Append(messages, UploadFirst)
            /\ UNCHANGED <<chatInput, isLoading, chatCall>>
       ELSE /\ chatInput' = <<>>
            /\ IF ParseThrows(currentDataset.payload)
               THEN /\ messages' = Append(Append(messages, UserMessage(chatInput)), ErrorReply)
                    /\ isLoading' = IsLoadingAfterFinally
                    /\ chatCall' = NoCall
               ELSE /\ messages' = Append(messages, UserMessage(chatInput))
                    /\ isLoading' = TRUE
                    /\ chatCall' = [pc |-> "translating",
                                    rowsKind |-> DatasetRows(currentDataset.payload)]
    /\ UNCHANGED <<currentDataset, cleanVars, queryVars, forecastVars, anomalyVars, kpiVars, statsVars, typeVars, fillVars, repeatVars, translateVars, trendVars, recommendVars, uploadVars, alertVars>>

\* await translateNLQtoSQL(...) settles: executeQuery runs and
\* generateInsightSummary is called, or the catch block replies.
TranslateSettles(nlqResult) ==
    /\ chatCall.pc = "translating"
    /\ IF nlqResult.t = "rejected" \/ ExecuteThrows(nlqResult, chatCall.rowsKind)
       THEN /\ messages' = Append(messages, ErrorReply)
            /\ isLoading' = IsLoadingAfterFinally
            /\ chatCall' = NoCall
       ELSE /\ chatCall' = [pc |-> "summarising", explanation |-> nlqResult.explanation]
            /\ UNCHANGED <<messages, isLoading>>
    /\ UNCHANGED <<chatInput, currentDataset, submitted, cleanVars, queryVars, forecastVars, anomalyVars, kpiVars, statsVars, typeVars, fillVars, repeatVars, translateVars, trendVars, recommendVars, uploadVars, alertVars>>

\* await generateInsightSummary(...) settles and the answer is appended.
InsightSettles(insight) ==
    /\ chatCall.pc = "summarising"
    /\ messages' = Append(messages, AnswerReply(chatCall.explanation, insight))
    /\ isLoading' = IsLoadingAfterFinally
    /\ chatCall' = NoCall
    /\ UNCHANGED <<chatInput, currentDataset, submitted, cleanVars, queryVars, forecastVars, anomalyVars, kpiVars, statsVars, typeVars, fillVars, repeatVars, translateVars, trendVars, recommendVars, uploadVars, alertVars>>

TranslationSettles == \E nlqResult \in Translations : TranslateSettles(nlqResult)
SummarySettles == \E insight \in Insights : InsightSettles(insight)

NextChat ==
    \/ \E text \in ChatInputs : SetInput(text)
    \/ \E d \in ChatDatasets : SetCurrentDataset(d)
    \/ HandleSubmit
    \/ TranslationSettles
    \/ SummarySettles

SpecChat == InitChat /\ [][NextChat]_vars

\* The promises handleSubmit awaits settle: the collaborator answers or the
\* request fails.
SpecChatFair == SpecChat /\ WF_vars(TranslationSettles) /\ WF_vars(SummarySettles)

(***************************************************************************)
(* DataContext: the alert store, and the unread count of AlertsPanel.      *)
(***************************************************************************)
\* setAlerts(prev => [alert, ...prev])
addAlert(prev, alert) == <<alert>> \o prev

\* A variant that flips the read flag.
markAlertAsRead_toggle(prev, alertId) ==
    [i \in DOMAIN prev |->
        IF prev[i].id = alertId THEN [prev[i] EXCEPT !.read = ~prev[i].read] ELSE prev[i]]

\* setAlerts(prev => prev.map(alert =>
\*     alert.id === alertId ? { ...alert, read: true } : alert))
markAlertAsRead(prev, alertId) ==
    [i \in DOMAIN prev |->
        IF prev[i].id = alertId THEN [prev[i] EXCEPT !.read = TRUE] ELSE prev[i]]

\* alerts.filter(a => !a.read).length
unreadCount(list) == Cardinality({i \in DOMAIN list : ~list[i].read})

\* The bounds of the alert store: the calls, and the ids of the alerts (two
\* alerts may carry one id; the last id is never given to an alert).
MaxAlertCalls == 4
AlertIds == {"a1", "a2"}
UnknownId == "a3"
NewAlerts == [id : AlertIds, read : BOOLEAN]

InitAlert ==
    /\ alerts = <<>>
    /\ alertCall = [n |-> 0, op |-> "none", id |-> "none"]
    /\ IdleClean /\ IdleQuery /\ IdleForecast /\ IdleAnomaly /\ IdleKpi /\ IdleStats /\ IdleType /\ IdleFill /\ IdleRepeat /\ IdleTranslate /\ IdleTrend /\ IdleRecommend /\ IdleUpload /\ IdleChat

\* A call of addAlert.
AddAlert(alert) ==
    /\ alertCall.n < MaxAlertCalls
    /\ alerts' = addAlert(alerts, alert)
    /\ alertCall' = [n |-> alertCall.n + 1, op |-> "addAlert", id |-> alert.id]
    /\ UNCHANGED <<cleanVars, queryVars, forecastVars, anomalyVars, kpiVars, statsVars, typeVars, fillVars, repeatVars, translateVars, trendVars, recommendVars, uploadVars, chatVars>>

\* A call of markAlertAsRead.
MarkAlertAsRead(alertId) ==
    /\ alertCall.n < MaxAlertCalls
    /\ alerts' = markAlertAsRead(alerts, alertId)
    /\ alertCall' = [n |-> alertCall.n + 1, op |-> "markAlertAsRead", id |-> alertId]
    /\ UNCHANGED <<cleanVars, queryVars, forecastVars, anomalyVars, kpiVars, statsVars, typeVars, fillVars, repeatVars, translateVars, trendVars, recommendVars, uploadVars, chatVars>>

NextAlert ==
    \/ \E alert \in NewAlerts : AddAlert(alert)
    \/ \E alertId \in AlertIds \cup {UnknownId} : MarkAlertAsRead(alertId)

SpecAlert == InitAlert /\ [][NextAlert]_vars

(***************************************************************************)
(* Claims about the cleaning pipeline (SpecClean).                         *)
(***************************************************************************)

\* C1: for every non-empty list of raw rows, the summary processDataset
\* returns has duplicates + total_rows equal to the number of raw rows, where
\* total_rows is the number of (unique) rows returned.
C1_DuplicatesPlusUnique ==
    (processed # NoResult /\ processed.t = "dataset") =>
        /\ processed.summary.duplicates + processed.summary.total_rows = Len(rawData)
        /\ processed.summary.total_rows = Len(processed.rows)

\* C1 witness: a call that removed a duplicate, kept two different rows and
\* filled a null cell.
C1_Witness ==
    /\ processed # NoResult /\ processed.t = "dataset"
    /\ Len(rawData) = 3
    /\ processed.summary.duplicates = 1
    /\ processed.summary.total_rows = 2
    /\ \E i \in DOMAIN rawData : \E c \in ColumnSet : rawData[i][c] = Null

\* C2 (as claimed): the second cleaning pass reports no duplicates.
C2_SecondPassNoDuplicates ==
    (reprocessed # NoResult /\ reprocessed.t = "dataset") =>
        reprocessed.summary.duplicates = 0


(***************************************************************************)
(* Claims about the query executor (SpecQuery).                            *)
(***************************************************************************)
QText == PlanText(sql)
QRows == Data(qdata)
\* Shape number k of the priority order the claims state matches the text:
\* its keyword is there and its columns are extracted.
ClaimedOrder == <<"count", "avg", "sum", "group", "desc", "asc">>
ShapeMatches(k) == Keyword(ClaimedOrder[k], QText) /\ Extracted(ClaimedOrder[k], QText)

\* C4 (as claimed): for a plan text with both 'GROUP BY g' and 'SUM(s)' (and
\* neither a count(*) nor an avg shape before them), executeQuery returns one
\* row {g: key, total: sum of s over the group} per distinct value of g, in
\* descending order of total.
C4_GroupBySum ==
    (/\ qresult # NoResult
     /\ ~ShapeMatches(1) /\ ~ShapeMatches(2)
     /\ MatchGroup(QText, Chars["group by "], <<>>) # NoMatch
     /\ MatchGroup(QText, Chars["sum("], Chars[")"]) # NoMatch
     /\ Len(QRows) > 0) =>
        LET g == MatchGroup(QText, Chars["group by "], <<>>)
            c == MatchGroup(QText, Chars["sum("], Chars[")"])
            groups == {PropertyKey(Cell(QRows[i], g)) : i \in DOMAIN QRows}
            rows == qresult.rows
        IN  /\ Len(rows) = Cardinality(groups)
            /\ \A j \in DOMAIN rows :
                /\ DOMAIN rows[j] = {g, Chars["total"]}
                /\ rows[j][g] \in groups
                /\ rows[j][Chars["total"]] =
                      Num(RSum([i \in DOMAIN QRows |->
                                  IF PropertyKey(Cell(QRows[i], g)) = rows[j][g]
                                  THEN NumberOrZero(Cell(QRows[i], c))
                                  ELSE Int2Rat(0)]))
            /\ \A j \in 1..(Len(rows) - 1) :
                RLeq(rows[j + 1][Chars["total"]].q, rows[j][Chars["total"]].q)

\* C5: the shapes are tested in the order count(*), avg, sum, group-by+sum,
\* order-by desc, order-by asc and the first shape that matches gives the
\* result; a text with 'select count(*)' gives [{total_count: number of
\* rows}] whatever else it holds.
C5_FirstMatchWins ==
    qresult # NoResult =>
        /\ Includes(ToLowerCase(QText), Chars["select count(*)"]) =>
              qresult.rows = <<(Chars["total_count"] :> Num(Int2Rat(qdata.n)))>>
        /\ \A k \in DOMAIN ClaimedOrder :
              (ShapeMatches(k) /\ \A j \in 1..(k - 1) : ~ShapeMatches(j)) =>
                  qresult.rows = ShapeResult(ClaimedOrder[k], QText, QRows)

\* C5 witness: a text with 'SELECT COUNT(*)' and a matching sum shape, called
\* on 7 rows, has returned [{total_count: 7}].
C5_Witness ==
    /\ qresult # NoResult
    /\ ShapeMatches(1) /\ ShapeMatches(3)
    /\ qdata.n = 3
    /\ qresult.rows = <<(Chars["total_count"] :> N(3))>>

\* The first N rows of the input, N = 100 in the client service and 10 in
\* the backend-delegated one.
RawSample ==
    LET cap == IF site = "client" THEN 100 ELSE 10
    IN  [i \in 1..(IF qdata.n < cap THEN qdata.n ELSE cap) |-> QRows[i]]

\* C6 (as claimed): when a shape's keyword is in the text and the extraction
\* of its column fails (no earlier shape having returned), executeQuery
\* returns the first N rows of the input.
C6_ExtractionFailureGivesSample ==
    (/\ qresult # NoResult
     /\ \E k \in DOMAIN ClaimedOrder :
            /\ \A j \in 1..(k - 1) : ~ShapeMatches(j)
            /\ Keyword(ClaimedOrder[k], QText)
            /\ ~Extracted(ClaimedOrder[k], QText)) =>
        qresult.rows = RawSample

\* C6 (amended): when no shape matches (no keyword in the text, or every
\* keyword in it fails to extract its column), executeQuery returns the first
\* N rows of the input, in order and unmodified, N = 100 in the client
\* service and 10 in the backend-delegated one.
C6_NoShapeGivesSample ==
    (qresult # NoResult /\ \A k \in DOMAIN ClaimedOrder : ~ShapeMatches(k)) =>
        qresult.rows = RawSample

\* C6 witness: a keyword whose extraction fails and no shape that matches, on
\* more rows than the cap of the service: the sample is cut at the cap.
C6_Witness ==
    /\ qresult # NoResult
    /\ \A k \in DOMAIN ClaimedOrder : ~ShapeMatches(k)
    /\ \E k \in DOMAIN ClaimedOrder : Keyword(ClaimedOrder[k], QText)
    /\ site = "backend"
    /\ qdata.n > 10
    /\ Len(qresult.rows) = 10
    /\ qresult.rows = SubSeq(QRows, 1, 10)

(***************************************************************************)
(* Claims about the anomaly detector (SpecAnomaly).                        *)
(***************************************************************************)

\* C3 (as claimed): for the rows dated 2024-01-01..03 with rev 100, 110 and
\* 1000, detectAnomalies returns the point of value 1000 with severity high.
C3_ScenarioFlagsHigh ==
    (anomalies # NoResult /\ anData = ScenarioRows) =>
        \E i \in DOMAIN anomalies.items :
            /\ anomalies.items[i].value = Int2Rat(1000)
            /\ anomalies.items[i].is_anomaly
            /\ anomalies.items[i].severity = "high"

\* C3 (amended): for these three rows detectAnomalies returns the empty
\* list: no point of a series of three has a z-score above 2.
C3_ScenarioNotFlagged ==
    (anomalies # NoResult /\ anData = ScenarioRows) => anomalies.items = <<>>

\* C3 witness: detectAnomalies has been called on the rows of the scenario.
C3_Witness == anomalies # NoResult /\ anData = ScenarioRows

(***************************************************************************)
(* Claims about the forecasts (SpecForecast).                              *)
(***************************************************************************)
\* The rows whose metric coerces to a number: the usable points.
UsableRows == {i \in DOMAIN tsData : ~IsNaN(ToNumber(tsData[i].rev))}
Forecast == prediction # NoResult
\* The (UTC) day of the last observed date.
LastObservedDay ==
    LET points == BuildSeries(tsData, env.now)
        last == CHOOSE i \in DOMAIN points :
                    \A j \in DOMAIN points : GetTime(points[j].date) <= GetTime(points[i].date)
    IN  GetTime(points[last].date) \div DayHours

\* C7 (as claimed): with fewer than 2 usable points predictTimeSeries returns
\* exactly {metric, predictions: [], model_type: 'insufficient_data'}.
C7_InsufficientData ==
    (Forecast /\ Cardinality(UsableRows) < 2) =>
        prediction = [metric |-> "rev", predictions |-> <<>>,
                      model_type |-> "insufficient_data"]

\* C8 (as claimed): for a series of at least 2 points predictTimeSeries
\* returns exactly `periods` predictions, the i-th dated i calendar days
\* after the last observed date, each of a value >= 0.
C8_PredictionDates ==
    (Forecast /\ Cardinality(UsableRows) >= 2 /\ Cardinality(UsableRows) = Len(tsData)) =>
        /\ Len(prediction.predictions) = periods
        /\ \A i \in DOMAIN prediction.predictions :
              /\ prediction.predictions[i].date = DateOnly(LastObservedDay + i)
              /\ RLeq(Int2Rat(0), prediction.predictions[i].value)

\* C9 (as claimed): the value and both confidence bounds of every prediction
\* are floored at 0.
C9_BoundsFloored ==
    Forecast =>
        \A i \in DOMAIN prediction.predictions :
            /\ RLeq(Int2Rat(0), prediction.predictions[i].value)
            /\ RLeq(Int2Rat(0), prediction.predictions[i].confidence_lower)
            /\ RLeq(Int2Rat(0), prediction.predictions[i].confidence_upper)

\* C10 (as claimed): an accuracy_score that is returned is a number of [0,1].
C10_AccuracyInUnitInterval ==
    (Forecast /\ "accuracy_score" \in DOMAIN prediction) =>
        /\ IsFinite(prediction.accuracy_score)
        /\ RLeq(Int2Rat(0), prediction.accuracy_score)
        /\ RLeq(prediction.accuracy_score, Int2Rat(1))

(***************************************************************************)
(* Claims about the tiers of the anomaly detector (SpecAnomaly).           *)
(***************************************************************************)
\* The points detectAnomalies works on, and their sums.  The values of the
\* model are integers: z > p/q is compared without division or square root,
\* q^2 (n v - S)^2 > p^2 (n Q - S^2), with S the sum and Q the sum of squares.
AnomalyPoints == BuildSeries(anData, env.now)
PointValue(i) == AnomalyPoints[i].value.n
RECURSIVE SumOver(_, _)
SumOver(f, k) == IF k = 0 THEN 0 ELSE f[k] + SumOver(f, k - 1)
PointSum == SumOver([i \in DOMAIN AnomalyPoints |-> PointValue(i)], Len(AnomalyPoints))
PointSquares ==
    SumOver([i \in DOMAIN AnomalyPoints |-> PointValue(i) * PointValue(i)], Len(AnomalyPoints))
ZAbove(i, p, q) ==
    LET n == Len(AnomalyPoints)
        spread == n * PointSquares - PointSum * PointSum
        off == n * PointValue(i) - PointSum
    IN  spread > 0 /\ q * q * off * off > p * p * spread
FlaggedPoints ==
    SelectSeq([i \in DOMAIN AnomalyPoints |-> i], LAMBDA i : ZAbove(i, 2, 1))

\* C11: detectAnomalies returns exactly the points of z-score > 2, in order,
\* each with is_anomaly = true and the severity high iff z > 3, medium iff
\* 2.5 < z <= 3, low iff 2 < z <= 2.5.
C11_ExactlyTheOutliers ==
    anomalies # NoResult =>
        /\ Len(anomalies.items) = Len(FlaggedPoints)
        /\ \A k \in DOMAIN anomalies.items :
              LET item == anomalies.items[k]
                  i == FlaggedPoints[k]
              IN  /\ item.value = AnomalyPoints[i].value
                  /\ item.timestamp = AnomalyPoints[i].date
                  /\ item.is_anomaly = TRUE
                  /\ item.severity = "high" <=> ZAbove(i, 3, 1)
                  /\ item.severity = "medium" <=> (ZAbove(i, 5, 2) /\ ~ZAbove(i, 3, 1))
                  /\ item.severity = "low" <=> ~ZAbove(i, 5, 2)

\* C11 witness: a series of ten points whose outlier has a z-score of
\* exactly 3 was returned as a medium anomaly.
C11_Witness ==
    /\ anomalies # NoResult
    /\ Len(anData) = 10
    /\ Len(anomalies.items) = 1
    /\ anomalies.items[1].severity = "medium"
    /\ ~ZAbove(FlaggedPoints[1], 3, 1)
    /\ ZAbove(FlaggedPoints[1], 299, 100)

(***************************************************************************)
(* Claims about the KPIs (SpecKpi).                                        *)
(***************************************************************************)
\* The numeric values observed in a column, in row order: numbers and
\* numeric strings.
IsObserved(cell) == cell.t = "num" \/ (cell.t = "str" /\ cell.s \in NumericStrings)
ObservedIn(column) ==
    LET cells == SelectSeq([i \in DOMAIN kpiData |-> Cell(kpiData[i], column)], IsObserved)
    IN  [i \in DOMAIN cells |->
            IF cells[i].t = "num" THEN cells[i].q ELSE Int2Rat(StrValue(cells[i].s))]
\* reported is x to 2 decimals: a number of hundredths at most 0.005 from x.
Reports(reported, x) ==
    /\ IsFinite(reported) /\ RMul(reported, Int2Rat(100)).d = 1
    /\ RLeq(RAbs(RSub(reported, x)), Rat(1, 200))

C13_ErrorIffEmpty ==
    processed # NoResult =>
        /\ rawData = <<>> => (processed.t = "error" /\ "rows" \notin DOMAIN processed)
        /\ rawData # <<>> =>
              /\ processed.t = "dataset"
              /\ {"columns", "rows", "summary"} \subseteq DOMAIN processed

\* C13 witness: processDataset was called on the empty list and failed.
C13_Witness == processed # NoResult /\ rawData = <<>> /\ processed.t = "error"

(***************************************************************************)
(* Claims about the statistics (SpecStats).                                *)
(***************************************************************************)
\* The number a toFixed string reads as.
FixedValue(f) == Rat(f.scaled, Pow10(f.digits))

\* C14 (as claimed): for every column reported, q1 <= median <= q3 and
\* min <= mean <= max, on the fields as reported.
C14_StatisticsOrdered ==
    statistics # NoResult =>
        \A name \in DOMAIN statistics.stats :
            LET st == statistics.stats[name]
            IN  /\ RLeq(st.q1, FixedValue(st.median))
                /\ RLeq(FixedValue(st.median), st.q3)
                /\ RLeq(st.min, FixedValue(st.mean))
                /\ RLeq(FixedValue(st.mean), st.max)

(***************************************************************************)
(* Claims about the type inference (SpecType).                             *)
(***************************************************************************)
\* The non-null values of the column, as a set, and what each parses as.
Present == {v \in Range(typeValues) : v \notin {Null, Undefined, Str("")}}
ParsesAsNumber(v) == v.t = "bool" \/ (v.t = "str" /\ v.s \in {"0", "1", "3"})
BooleanLiteral(v) == v.t = "bool" \/ (v.t = "str" /\ v.s \in {"true", "false", "1", "0"})
ParsesAsDate(v) == v.t = "str" /\ v.s \in {"2024-01-01", "0", "1", "3"}

\* C15: the type is decided on the non-null values only, by precedence:
\* number iff all parse as numbers, else boolean iff all are boolean-like,
\* else date iff all parse as dates, else string; string when there is none.
C15_TypePrecedence ==
    detectedType # NoResult =>
        LET allNumbers == \A v \in Present : ParsesAsNumber(v)
            allBooleans == \A v \in Present : BooleanLiteral(v)
            allDates == \A v \in Present : ParsesAsDate(v)
            type == detectedType.type
        IN  /\ Present = {} => type = "string"
            /\ Present # {} =>
                  /\ type = "number" <=> allNumbers
                  /\ type = "boolean" <=> (~allNumbers /\ allBooleans)
                  /\ type = "date" <=> (~allNumbers /\ ~allBooleans /\ allDates)
                  /\ type = "string" <=> (~allNumbers /\ ~allBooleans /\ ~allDates)

\* C15 witness: a column of a null, a '1' and a 'true' (not all numbers, all
\* boolean-like, not all dates) was typed boolean.
C15_Witness ==
    /\ detectedType # NoResult
    /\ typeValues = <<Null, Str("1"), Str("true")>>
    /\ detectedType.type = "boolean"

(***************************************************************************)
(* Claims about the imputation (SpecClean).                                *)
(***************************************************************************)
\* The deduplicated rows before imputation: the raw rows with null for the
\* missing cells, without the rows equal to an earlier one.
CleanedRow(i) ==
    [c \in ColumnSet |-> IF rawData[i][c] \in {Null, Str("")} THEN Null ELSE rawData[i][c]]
Deduplicated ==
    LET kept == SelectSeq([i \in DOMAIN rawData |-> i],
                          LAMBDA i : \A j \in 1..(i - 1) : CleanedRow(j) # CleanedRow(i))
    IN  [k \in DOMAIN kept |-> CleanedRow(kept[k])]
Processed == processed # NoResult /\ processed.t = "dataset"
TypeOf(c) ==
    processed.columns[CHOOSE j \in DOMAIN processed.columns : processed.columns[j].name = c].type

\* C16: the rows returned are the deduplicated rows in the same order with
\* only null cells changed: a non-null cell keeps its value, the cells of a
\* date or boolean column are unchanged, and the rows passed to
\* fillMissingValues are as they were.
C16_OnlyNullCellsChange ==
    Processed =>
        /\ Len(processed.rows) = Len(Deduplicated)
        /\ \A i \in DOMAIN processed.rows : \A c \in ColumnSet :
              /\ Deduplicated[i][c] # Null => processed.rows[i][c] = Deduplicated[i][c]
              /\ TypeOf(c) \in {"date", "boolean"} =>
                    processed.rows[i][c] = Deduplicated[i][c]
        /\ uniqueRows.rows = Deduplicated

\* C16 witness: a boolean column and a date column with a null each, next to
\* filled nulls of the other rows' columns.
C16_Witness ==
    /\ Processed
    /\ rawData = << [a |-> Str("true"), b |-> Null],
                    [a |-> Null, b |-> Str("2024-01-01")],
                    [a |-> Str("1"), b |-> Str("2024-01-01")] >>
    /\ TypeOf("a") = "boolean" /\ TypeOf("b") = "date"
    /\ processed.rows[2].a = Null /\ processed.rows[1].b = Null

(***************************************************************************)
(* Claims about fillMissingValues (SpecFill).                              *)
(***************************************************************************)
\* The non-null cells of column a before the call, and the cells written.
Given == {i \in DOMAIN fillData : fillData[i].a # Null}
Written == {i \in DOMAIN fillData : fillData[i].a = Null}
CountOf(v) == Cardinality({i \in Given : fillData[i].a = v})
AllNumeric == \A i \in Given : fillData[i].a.s \in {"0", "1", "3"}
AllLiterals == \A i \in Given : fillData[i].a.s \in {"true", "false", "0", "1"}
ValueSum == SumOver([i \in DOMAIN fillData |->
                        IF i \in Given /\ AllNumeric THEN StrValue(fillData[i].a.s) ELSE 0],
                    Len(fillData))

NullsIn(c) == Cardinality({i \in DOMAIN Deduplicated : Deduplicated[i][c] = Null})

\* C18 (as claimed): missing_values[c] is the number of rows of the
\* deduplicated set, before imputation, with a null in c; the entry is
\* absent when that number is 0.
C18_MissingValuesOfUniqueRows ==
    Processed =>
        \A c \in ColumnSet :
            /\ NullsIn(c) = 0 => c \notin DOMAIN processed.summary.missing_values
            /\ NullsIn(c) > 0 =>
                  /\ c \in DOMAIN processed.summary.missing_values
                  /\ processed.summary.missing_values[c] = NullsIn(c)

(***************************************************************************)
(* Claims about repeated analyses (SpecRepeat).                            *)
(***************************************************************************)
\* C19 (as claimed): two calls of calculateKPIs, predictTimeSeries and
\* detectAnomalies with the same rows and metric return the same results,
\* whenever they are made, also for rows without a date.
C19_SameRowsSameResults ==
    repSecond # NoResult =>
        /\ repSecond.kpis = repFirst.kpis
        /\ repSecond.prediction = repFirst.prediction
        /\ repSecond.anomalies = repFirst.anomalies


(***************************************************************************)
(* Claims about the call of the collaborator (SpecTranslate).              *)
(***************************************************************************)
\* The outcomes the claim calls failures: a network error, a response whose
\* status is not 2xx, a body or (client service) a content that is not JSON.
CollaboratorFailed ==
    \/ response.t = "network error"
    \/ /\ response.t = "response"
       /\ \/ ~response.ok
          \/ /\ "body" \in DOMAIN response
             /\ \/ ~response.body.json
                \/ /\ variant = "client"
                   /\ response.body.data.choices # <<>>
                   /\ ~JSONParse(response.body.data.choices[1].message.content).ok

\* C20: a call of translateNLQtoSQL sends at most one request to the
\* collaborator, and with a non-empty column schema a settled call has
\* resolved, never rejected; after a network error, a status that is not 2xx
\* or malformed JSON it resolved with exactly the plan of the heuristic
\* planner for the same query and schema.
C20_OneRequestThenFallback ==
    /\ requests \in {0, 1}
    /\ (pc = "settled" /\ nlqColumns # <<>>) =>
        /\ translation.t = "resolved"
        /\ CollaboratorFailed => translation.value = Simulate(variant, nlqQuery, nlqColumns)

\* The client service asked for an average over the schema rev (number) gets
\* a response that is not ok after its one request, and resolves with the
\* average plan of the planner.
C20_Witness ==
    /\ pc = "settled"
    /\ variant = "client"
    /\ requests = 1
    /\ nlqQuery = Text("Average rev")
    /\ nlqColumns = <<[name |-> Text("rev"), type |-> "number"]>>
    /\ response.t = "response" /\ ~response.ok
    /\ translation.t = "resolved"
    /\ translation.value.sql = Text("SELECT AVG(") \o Text("rev") \o Text(") as average_") \o Text("rev") \o Text(" FROM ") \o Text("data")
    /\ translation.value.visualization_type = "table"

(***************************************************************************)
(* Claims about the series of the analyses (SpecAnomaly).                  *)
(***************************************************************************)
\* The values of the rows whose metric coerces to a number.
CoercedValues ==
    LET numbers == [i \in DOMAIN anData |-> ToNumber(anData[i].rev)]
    IN  SelectSeq(numbers, LAMBDA x : ~IsNaN(x))

\* C21 (as claimed): the rows whose metric does not coerce to a number are
\* dropped: with fewer than 3 rows that coerce detectAnomalies returns the
\* empty list, and the expected value of every result is the mean of the
\* values that coerce.
C21_NonNumericRowsDropped ==
    anomalies # NoResult =>
        /\ Len(CoercedValues) < 3 => anomalies.items = <<>>
        /\ \A k \in DOMAIN anomalies.items :
              anomalies.items[k].expected_value = Mean(CoercedValues)

(***************************************************************************)
(* Claims about detectTrend (SpecTrend).                                   *)
(***************************************************************************)
\* The slope of the least-squares line through the whole numbers of the
\* series is SlopeTop / SlopeBottom, with SlopeBottom > 0 from 2 values on;
\* the average is ValueTotal / n.
ValueTotal == SumOver([i \in DOMAIN trendValues |-> trendValues[i].n], Len(trendValues))
SlopeTop ==
    LET n == Len(trendValues)
    IN  n * SumOver([i \in DOMAIN trendValues |-> (i - 1) * trendValues[i].n], n)
        - SumOver([i \in DOMAIN trendValues |-> i - 1], n) * ValueTotal
SlopeBottom ==
    LET n == Len(trendValues)
    IN  n * SumOver([i \in DOMAIN trendValues |-> (i - 1) * (i - 1)], n)
        - SumOver([i \in DOMAIN trendValues |-> i - 1], n) * SumOver([i \in DOMAIN trendValues |-> i - 1], n)

\* C22 (as claimed): fewer than 2 values are stable; else the trend is up iff
\* the slope is above 1% of the absolute value of the average, down iff it
\* is below the negative of that, else stable.
C22_SlopeAgainstMagnitude ==
    trend # NoResult =>
        LET n == Len(trendValues)
            magnitude == IF ValueTotal < 0 THEN -ValueTotal ELSE ValueTotal
        IN  IF n < 2 THEN trend.direction = "stable"
            ELSE /\ trend.direction = "up" <=> 100 * n * SlopeTop > magnitude * SlopeBottom
                 /\ trend.direction = "down" <=> 100 * n * SlopeTop < -(magnitude * SlopeBottom)

(***************************************************************************)
(* Claims about the recommendations (SpecRecommend).                       *)
(***************************************************************************)
\* The rules as the specification states them, on the whole numbers of the
\* predicted values: a high anomaly; a change of more than 20% from the
\* first to the last prediction, up or down; more than 2 medium anomalies;
\* an accuracy score that is present and below 0.6.
Given23 == recommendations # NoResult
MessageKinds == [i \in DOMAIN recommendations.messages |-> recommendations.messages[i].kind]
FirstPredicted == recPrediction.predictions[1].value.n
LastPredicted == recPrediction.predictions[Len(recPrediction.predictions)].value.n
HighRule == \E i \in DOMAIN recAnomalies : recAnomalies[i].severity = "high"
RiseRule ==
    /\ recPrediction.predictions # <<>>
    /\ \/ FirstPredicted > 0 /\ 100 * (LastPredicted - FirstPredicted) > 20 * FirstPredicted
       \/ FirstPredicted = 0 /\ LastPredicted > 0
FallRule ==
    /\ recPrediction.predictions # <<>>
    /\ \/ FirstPredicted > 0 /\ 100 * (LastPredicted - FirstPredicted) < -20 * FirstPredicted
       \/ FirstPredicted = 0 /\ LastPredicted < 0
MonitorRule == Cardinality({i \in DOMAIN recAnomalies : recAnomalies[i].severity = "medium"}) > 2
CaveatRule ==
    /\ "accuracy_score" \in DOMAIN recPrediction
    /\ ~IsNaN(recPrediction.accuracy_score)
    /\ 5 * recPrediction.accuracy_score.n < 3 * recPrediction.accuracy_score.d
FiredKinds ==
    (IF HighRule THEN <<"Critical">> ELSE <<>>)
    \o (IF RiseRule THEN <<"Opportunity">> ELSE IF FallRule THEN <<"Warning">> ELSE <<>>)
    \o (IF MonitorRule THEN <<"Monitor">> ELSE <<>>)
    \o (IF CaveatRule THEN <<"Note">> ELSE <<>>)

\* C23 (as claimed): the list is never empty; it holds the messages of the
\* rules that fired, in the order critical, forecast change, monitor, note,
\* and the default message alone iff no rule fired.
C23_RulesInOrderOrDefault ==
    Given23 =>
        /\ recommendations.messages # <<>>
        /\ MessageKinds = IF FiredKinds = <<>> THEN <<AllNormal.kind>> ELSE FiredKinds

\* C24 (as claimed): the note about the data quality is among the messages
\* iff the prediction carries an accuracy score and the score is below 0.6,
\* the score 0 included.
C24_CaveatBelowSixTenths ==
    Given23 => ((\E i \in DOMAIN MessageKinds : MessageKinds[i] = "Note") <=> CaveatRule)

(***************************************************************************)
(* Claims about the synthetic timestamps (SpecAnomaly).                    *)
(***************************************************************************)
Undated == \A i \in DOMAIN anData : anData[i].date = Undefined

\* C25 (as claimed): with undated rows, row k from the end is stamped k days
\* before the clock reading, the last row with the clock reading itself
\* (today); so every anomaly returned carries the value of the row its
\* timestamp belongs to.
C25_LastRowStampedToday ==
    (anomalies # NoResult /\ Undated) =>
        \A r \in DOMAIN anomalies.items :
            \E k \in 0..(Len(anData) - 1) :
                /\ anomalies.items[r].timestamp = Instant(env.now - k * DayHours)
                /\ anomalies.items[r].value = NumberOrZero(anData[Len(anData) - k].rev)

(***************************************************************************)
(* Claims about the upload (SpecUpload).                                   *)
(***************************************************************************)
\* The call c fails in the step: its file name is refused, its text is not
\* read, it has no data row, or the rows are not stored.
FailsNow(c) == uploads[c].pc # "failed" /\ uploads'[c].pc = "failed"

\* C26: a call of handleFile that fails ends with an error message set and
\* with the dataset list and the storage as they were; it ends with
\* isProcessing = false when no other call is still reading its file.
C26_FailedUploadKeepsState ==
    [][\A c \in Calls :
          FailsNow(c) =>
              /\ uploadError' # Null
              /\ datasets' = datasets
              /\ storage' = storage
              /\ (\A d \in Calls \ {c} : uploads[d].pc # "reading") => isProcessing' = FALSE]_vars

\* After one file was uploaded, a file with a header line only has failed:
\* the error is shown, the one dataset and its rows are all there is, and
\* nothing is being processed.
C26_Witness ==
    \E c, d \in Calls :
        /\ uploads[d].pc = "uploaded"
        /\ uploads[c].pc = "failed"
        /\ uploads[c].file = [name |-> <<"d", ".", "c", "s", "v">>, content |-> <<"a", ",", "b", "\n">>]
        /\ uploadError = Str("No data found in file")
        /\ Len(datasets) = 1 /\ Cardinality(storage) = 1
        /\ ~isProcessing

\* C26 (as claimed): a call of handleFile that fails ends with an error
\* message set, the dataset list and the storage as they were, and
\* isProcessing = false.
C26_FailedUploadChangesNothing ==
    [][\A c \in Calls :
          FailsNow(c) =>
              /\ uploadError' # Null
              /\ datasets' = datasets
              /\ storage' = storage
              /\ isProcessing' = FALSE]_vars

(***************************************************************************)
(* Claims about the shortest series with an anomaly (SpecAnomaly).         *)
(***************************************************************************)
\* The severities of the returned anomalies.
ReturnedSeverities == {anomalies.items[k].severity : k \in DOMAIN anomalies.items}
\* All the points have one value: the standard deviation is zero.
ZeroDeviation == \A i, j \in DOMAIN AnomalyPoints : PointValue(i) = PointValue(j)

\* C27: detectAnomalies returns an empty list for every series of at most 5
\* points, no medium anomaly for a series of at most 7 points, no high
\* anomaly for a series of at most 10 points, and an empty list when the
\* standard deviation is zero.
C27_ShortSeriesHaveNoAnomaly ==
    anomalies # NoResult =>
        /\ Len(anData) <= 5 => anomalies.items = <<>>
        /\ Len(anData) <= 7 => "medium" \notin ReturnedSeverities
        /\ Len(anData) <= 10 => "high" \notin ReturnedSeverities
        /\ ZeroDeviation => anomalies.items = <<>>

\* C27 witness: a series of five points, four equal and one apart (a z-score
\* of exactly 2), was examined and nothing was returned.
C27_Witness ==
    /\ anomalies # NoResult
    /\ Len(anData) = 5
    /\ PointSum = 1
    /\ ~ZeroDeviation
    /\ anomalies.items = <<>>

(***************************************************************************)
(* Claims about the nullable flags and the missing-value counts            *)
(* (SpecClean).                                                            *)
(***************************************************************************)
\* In a dataset, the nullable columns are the columns with a count in
\* summary.missing_values.
NullableAsCounted(dataset) ==
    \A j \in DOMAIN dataset.columns :
        dataset.columns[j].nullable <=>
            dataset.columns[j].name \in DOMAIN dataset.summary.missing_values

\* C28: in every Dataset returned by processDataset, a column's nullable flag
\* is true if and only if summary.missing_values has an entry for the column.
C28_NullableIffCounted ==
    /\ (processed # NoResult /\ processed.t = "dataset") => NullableAsCounted(processed)
    /\ (reprocessed # NoResult /\ reprocessed.t = "dataset") => NullableAsCounted(reprocessed)

\* C28 witness: three rows, two of them the same row with a null in column
\* a, were processed: column a is nullable and counted twice, column b is
\* neither.
C28_Witness ==
    /\ processed # NoResult
    /\ processed.t = "dataset"
    /\ Len(rawData) = 3
    /\ processed.summary.duplicates = 1
    /\ processed.columns[1].nullable
    /\ ~processed.columns[2].nullable
    /\ DOMAIN processed.summary.missing_values = {"a"}
    /\ processed.summary.missing_values["a"] = 2

(***************************************************************************)
(* Claims about the chat (SpecChatFair).                                   *)
(***************************************************************************)
\* A submit event is handled in the step.
SubmitEvent == submitted' # submitted
\* The submit is accepted: the input is not blank, no request is loading
\* and a dataset is selected.
Blank == Trim(chatInput) = <<>>
Accepted == ~Blank /\ ~isLoading /\ currentDataset # Null
\* The step appends exactly one message of the assistant: an answer or the
\* fixed error message.
RepliesOnce ==
    /\ Len(messages') = Len(messages) + 1
    /\ SubSeq(messages', 1, Len(messages)) = messages
    /\ LET reply == messages'[Len(messages')]
       IN  /\ reply.type = "assistant"
           /\ reply = ErrorReply \/ DOMAIN reply.content = {"explanation", "insight"}
\* The step of a submit event, by its case.
SubmitRule ==
    SubmitEvent =>
        IF Blank \/ isLoading
        THEN UNCHANGED <<messages, chatInput, isLoading, currentDataset, chatCall>>
        ELSE IF currentDataset = Null
        THEN /\ messages' = Append(messages, UploadFirst)
             /\ UNCHANGED <<chatInput, isLoading, currentDataset, chatCall>>
        ELSE /\ Len(messages') > Len(messages)
             /\ SubSeq(messages', 1, Len(messages) + 1) = Append(messages, UserMessage(chatInput))
             /\ \/ isLoading' /\ chatCall'.pc # "idle" /\ Len(messages') = Len(messages) + 1
                \/ ~isLoading' /\ chatCall'.pc = "idle"
                      /\ messages' = Append(Append(messages, UserMessage(chatInput)), ErrorReply)
\* While a request is loading the messages stay, until the step that ends
\* it: that step appends the one reply and clears isLoading.
ReplyRule ==
    (isLoading /\ ~SubmitEvent) =>
        IF isLoading' THEN messages' = messages
        ELSE RepliesOnce /\ chatCall'.pc = "idle"
\* Outside a request and a submit the messages stay.
QuietRule == (~isLoading /\ ~SubmitEvent) => (messages' = messages /\ ~isLoading')

\* C29: an accepted submit appends the user message and is eventually
\* followed by exactly one assistant message (the answer or the fixed error
\* message), after which isLoading is false; a submit while loading or with
\* blank input changes nothing; a submit with no dataset appends only the
\* 'upload a dataset first' message and starts no request.
C29_EverySubmitAnsweredOnce ==
    /\ [][SubmitRule /\ ReplyRule /\ QuietRule]_vars
    /\ \A k \in 1..(2 * MaxSubmits + 1) :
          (isLoading /\ Len(messages) = k) ~>
              (~isLoading /\ Len(messages) = k + 1 /\ messages[k + 1].type = "assistant"
                 /\ messages[k].type = "user")

\* C29 witness: a question was answered after the input had been refilled
\* and submitted again while the request was loading (three submit events:
\* one with no dataset, one accepted, one ignored).
C29_Witness ==
    /\ submitted = 3
    /\ ~isLoading
    /\ Len(messages) = 4
    /\ messages[2] = UploadFirst
    /\ messages[3] = UserMessage(<<" ", "q">>)
    /\ DOMAIN messages[4].content = {"explanation", "insight"}
    /\ chatInput = <<" ", "q">>

(***************************************************************************)
(* Claims about the alert store (SpecAlert).                               *)
(***************************************************************************)
\* The alerts before the step are the last alerts after it, in their order,
\* each with its id and with its read flag kept or raised.
AlertsKept ==
    /\ Len(alerts') >= Len(alerts)
    /\ \A i \in DOMAIN alerts :
          LET after == alerts'[i + Len(alerts') - Len(alerts)]
          IN  /\ after.id = alerts[i].id
              /\ alerts[i].read => after.read
\* The unread alerts, counted without the operator of the panel.
RECURSIVE UnreadIn(_)
UnreadIn(list) ==
    IF list = <<>> THEN 0 ELSE (IF Head(list).read THEN 0 ELSE 1) + UnreadIn(Tail(list))
\* The step of a markAlertAsRead(id): the alerts of that id are read, the
\* others are as they were.
MarkRule ==
    alertCall'.op = "markAlertAsRead" =>
        /\ Len(alerts') = Len(alerts)
        /\ \A i \in DOMAIN alerts :
              IF alerts[i].id = alertCall'.id
              THEN alerts'[i].id = alerts[i].id /\ alerts'[i].read
              ELSE alerts'[i] = alerts[i]
        /\ (\A i \in DOMAIN alerts : alerts[i].id # alertCall'.id) => alerts' = alerts
        /\ (alertCall.op = "markAlertAsRead" /\ alertCall.id = alertCall'.id) => alerts' = alerts
        /\ UnreadIn(alerts') <= UnreadIn(alerts)

\* C30: after any sequence of addAlert and markAlertAsRead calls, no alert
\* is removed and the order is newest first (addAlert prepends); a read flag
\* never goes back to false; markAlertAsRead(id) changes only the read flag
\* of the alerts with that id (none for an unknown id, none when repeated);
\* the unread count rises only by addAlert.
C30_AlertStoreRules ==
    [][alertCall'.n # alertCall.n =>
          /\ AlertsKept
          /\ alertCall'.op = "addAlert" =>
                (Len(alerts') = Len(alerts) + 1 /\ Tail(alerts') = alerts
                    /\ alerts'[1].id = alertCall'.id)
          /\ MarkRule
          /\ unreadCount(alerts') = UnreadIn(alerts')]_vars

\* C30 witness: two alerts of one id and one of another were added unread,
\* and markAlertAsRead of the shared id has read both and left the other.
C30_Witness ==
    /\ alertCall = [n |-> 4, op |-> "markAlertAsRead", id |-> "a1"]
    /\ alerts = << [id |-> "a1", read |-> TRUE], [id |-> "a2", read |-> FALSE],
                   [id |-> "a1", read |-> TRUE] >>

====
